---- MODULE Spec2Model ----
(***************************************************************************)
(* A model of the camonanowallet transaction engine: block construction,   *)
(* send, stealth (camo) send, batched receive, and the command layer's     *)
(* bookkeeping of the cached receivable map and the frontier database.     *)
(*                                                                         *)
(* Block hashes are modelled as the tuple of the hashed fields (a perfect  *)
(* hash), u128 is scaled down to 0..U128_MAX, and every RPC round trip is  *)
(* a pair of steps (issued, completed) so that orderings are observable.   *)
(***************************************************************************)
EXTENDS Integers, Sequences, FiniteSets, TLC

VARIABLES
    config,        \* CoreClientConfig (the fields the engine reads)
    wallet_db,     \* WalletDB: the account tables
    frontiers_db,  \* FrontiersDB: frontiers (Vec) and frontiers_balance
    receivable,    \* Client.receivable: HashMap block_hash -> Receivable
    cmd,           \* the command in progress (its position and its locals)
    last,          \* what the last finished command returned
    inflight,      \* blocks whose process RPC is issued and not yet completed
    published,     \* blocks whose process RPC was accepted by a node
    ops            \* number of commands started

vars == <<config, wallet_db, frontiers_db, receivable, cmd, last, inflight, published, ops>>

-----------------------------------------------------------------------------
(* Bounds of the model *)

\* stand-in for u128::MAX
U128_MAX == 3
\* largest RPC_RECEIVE_TRANSACTIONS_BATCH_SIZE a configuration is drawn with
MaxBatch == 2
\* number of commands in one run
MaxOps == 1
\* largest DB_NUMBER_OF_ACCOUNTS_LIMIT a configuration is drawn with
MaxAccountLimit == 2
\* stand-in for u64::MAX, the width of the clock and of banned_until
U64_MAX == 5
\* largest RPC_RETRY_LIMIT a configuration is drawn with
MaxRetry == 2
\* number of proof-of-work jobs started in one run
MaxJobs == 4
\* the longest chain of the notification account at the node
MaxChain == 5
\* the largest RPC_ACCOUNT_HISTORY_BATCH_SIZE
MaxHistoryBatch == 2
\* the last reading of the clock of the command line wallet
MaxClock == 6

-----------------------------------------------------------------------------
(* Accounts, hashes, receivables *)

\* accounts whose keys the wallet can derive
WalletAccounts == {"a1", "a2"}
\* accounts of other people
ForeignAccounts == {"x1"}
Accounts == WalletAccounts \cup ForeignAccounts

\* stealth (camo) addresses a payment can name
CamoAccounts == {"camo1", "camo2"}

\* CamoAccount::signer_account: the notification account inside the address
signer_account(camo) == IF camo = "camo1" THEN "n1" ELSE "a2"

\* CamoAccount::derive_account: the one-time account of a payment
derive_account(camo) == IF camo = "camo1" THEN "d1" ELSE "d2"

\* Notification::V1 of CamoAccount::sender_ecdh
notification_of(camo) ==
    [recipient |-> signer_account(camo), representative_payload |-> "ecdh"]

ZERO_HASH == <<>>
NoWork == "none"
ZERO_WORK == "zero"
GENESIS == "genesis"
REPRESENTATIVES == {"rep1"}

\* the pending transactions the network can report for this wallet
R1 == [recipient |-> "a1", block_hash |-> "h1", amount |-> 1]
R2 == [recipient |-> "a1", block_hash |-> "h2", amount |-> 1]
R3 == [recipient |-> "a2", block_hash |-> "h3", amount |-> U128_MAX]
Receivables == {R1, R2, R3}
Hashes == {"h1", "h2", "h3", "h9"}

None == [none |-> TRUE]

-----------------------------------------------------------------------------
(* Blocks and frontiers *)

\* Block::hash: the digest of the first six fields
Hash(b) ==
    <<b.block_type, b.account, b.previous, b.representative, b.balance, b.link>>

FrontierInfo_new(block, cached_work) ==
    [block |-> block, cached_work |-> cached_work]

new_unopened(account) ==
    [block |-> [block_type |-> "Change", account |-> account,
                previous |-> ZERO_HASH, representative |-> GENESIS,
                balance |-> 0, link |-> "0", work |-> ZERO_WORK],
     cached_work |-> NoWork]

is_unopened(f) == new_unopened(f.block.account) = f

\* an account opened by one receive block of the given balance
opened(account, balance) ==
    [block |-> [block_type |-> "Receive", account |-> account,
                previous |-> ZERO_HASH, representative |-> "rep1",
                balance |-> balance, link |-> "h0", work |-> ZERO_WORK],
     cached_work |-> NoWork]

choose_representatives(current, option) ==
    IF option # None THEN {option.rep}
    ELSE IF current \in REPRESENTATIVES THEN {current}
    ELSE REPRESENTATIVES

-----------------------------------------------------------------------------
(* WalletDB *)

find_key(account) == account \in wallet_db.account_db

\* WalletDB::sign_block
sign_block(block) ==
    IF find_key(block.account) THEN [ok |-> TRUE, block |-> block]
    ELSE [ok |-> FALSE, err |-> "AccountNotFound"]

-----------------------------------------------------------------------------
(* FrontiersDB *)

RECURSIVE search_account(_, _, _)
search_account(frontiers, account, i) ==
    IF i > Len(frontiers) THEN 0
    ELSE IF frontiers[i].block.account = account THEN i
    ELSE search_account(frontiers, account, i + 1)

account_frontier(db, account) ==
    LET i == search_account(db.frontiers, account, 1)
    IN  IF i = 0 THEN None ELSE db.frontiers[i]

\* BlockType::is_epoch
is_epoch(block) == block.block_type = "Epoch"

\* Block::follows_epoch_rules: an epoch block continues the previous block of
\* the account and changes neither its balance nor its representative
follows_epoch_rules(block, prev) ==
    /\ block.account = prev.account
    /\ block.previous = Hash(prev)
    /\ block.balance = prev.balance
    /\ block.representative = prev.representative

\* FrontiersDB::_could_insert without the check of the balance
could_insert_no_balance(db, new) ==
    LET index == search_account(db.frontiers, new.block.account, 1)
    IN  IF index # 0 /\ is_epoch(new.block)
           /\ ~follows_epoch_rules(new.block, db.frontiers[index].block)
        THEN [ok |-> FALSE, err |-> "InvalidEpochBlock"]
        ELSE [ok |-> TRUE, index |-> index]

\* FrontiersDB::_could_insert: Ok(index) or Err
could_insert(db, new) ==
    LET index == search_account(db.frontiers, new.block.account, 1)
        total == IF index # 0
                 THEN db.frontiers_balance - db.frontiers[index].block.balance
                 ELSE db.frontiers_balance
    IN  IF index # 0 /\ is_epoch(new.block)
           /\ ~follows_epoch_rules(new.block, db.frontiers[index].block)
        THEN [ok |-> FALSE, err |-> "InvalidEpochBlock"]
        ELSE IF total + new.block.balance > U128_MAX
        THEN [ok |-> FALSE, err |-> "FrontierBalanceOverflow"]
        ELSE [ok |-> TRUE, index |-> index]

could_insert_many(db, new) ==
    \A i \in 1..Len(new) : could_insert(db, new[i]).ok

\* add_or_update that pushes a new entry whatever the index says
add_always(db, index, new) ==
    [frontiers |-> Append(db.frontiers, new),
     frontiers_balance |-> db.frontiers_balance + new.block.balance]

add_or_update(db, index, new) ==
    IF index # 0
    THEN [frontiers |-> [db.frontiers EXCEPT ![index] = new],
          frontiers_balance |-> db.frontiers_balance
                                - db.frontiers[index].block.balance
                                + new.block.balance]
    ELSE [frontiers |-> Append(db.frontiers, new),
          frontiers_balance |-> db.frontiers_balance + new.block.balance]

\* the loop of FrontiersDB::insert: stops at the first entry that fails
RECURSIVE insert_loop(_, _, _)
insert_loop(db, new, i) ==
    IF i > Len(new) THEN db
    ELSE LET c == could_insert(db, new[i])
         IN  IF ~c.ok THEN db
             ELSE insert_loop(add_or_update(db, c.index, new[i]), new, i + 1)

FrontiersDB_insert(db, new) ==
    IF ~could_insert_many(db, new) THEN db ELSE insert_loop(db, new, 1)

\* CoreClient::set_new_frontiers: an error of insert is logged and dropped
set_new_frontiers(db, new) == FrontiersDB_insert(db, new)

remove_at(s, i) ==
    [j \in 1..(Len(s) - 1) |-> IF j < i THEN s[j] ELSE s[j + 1]]

FrontiersDB_remove(db, account) ==
    LET i == search_account(db.frontiers, account, 1)
    IN  IF i = 0 THEN [ok |-> FALSE, db |-> db]
        ELSE [ok |-> TRUE,
              db |-> [frontiers |-> remove_at(db.frontiers, i),
                      frontiers_balance |-> db.frontiers_balance
                                            - db.frontiers[i].block.balance]]

-----------------------------------------------------------------------------
(* Block construction *)

\* the block of create_send_block, signed: the set of blocks the random
\* choice of a representative allows, or the error of sign_block
signed_send_block(payment, sender_frontier) ==
         LET previous == IF is_unopened(sender_frontier) THEN ZERO_HASH
                         ELSE Hash(sender_frontier.block)
             work == IF sender_frontier.cached_work # NoWork
                     THEN sender_frontier.cached_work ELSE ZERO_WORK
             signed == sign_block([account |-> payment.sender])
         IN  IF ~signed.ok THEN signed
             ELSE [ok |-> TRUE,
                   blocks |->
                     {[block_type |-> "Send", account |-> payment.sender,
                       previous |-> previous, representative |-> rep,
                       balance |-> sender_frontier.block.balance - payment.amount,
                       link |-> payment.recipient, work |-> work] :
                      rep \in choose_representatives(
                                  sender_frontier.block.representative,
                                  payment.new_representative)}]

\* create_send_block without the check of the balance
create_send_block_unchecked(payment, sender_frontier) ==
    IF payment.sender = payment.recipient
    THEN [ok |-> FALSE, err |-> "InvalidPayment"]
    ELSE signed_send_block(payment, sender_frontier)

\* client/core/src/client/send.rs create_send_block
create_send_block(payment, sender_frontier) ==
    IF payment.sender = payment.recipient
    THEN [ok |-> FALSE, err |-> "InvalidPayment"]
    ELSE IF payment.amount > sender_frontier.block.balance
    THEN [ok |-> FALSE, err |-> "NotEnoughCoins"]
    ELSE signed_send_block(payment, sender_frontier)

-----------------------------------------------------------------------------
(* Commands *)

Idle == [op |-> "idle"]

\* no command has returned since the last one started
NoResult == [op |-> "none", err |-> "none"]

Finish(op, err) == [op |-> op, err |-> err]

\* a command starts: published collects the blocks accepted in its course
Start == cmd = Idle /\ ops < MaxOps /\ ops' = ops + 1 /\ published' = {}

\* SendArgs::execute with CoreClient::send up to the process RPC
Send(payment) ==
    /\ Start
    /\ UNCHANGED <<config, wallet_db, frontiers_db, receivable>>
    /\ LET frontier == account_frontier(frontiers_db, payment.sender)
           built == IF payment.sender = payment.recipient
                    THEN [ok |-> FALSE, err |-> "InvalidPayment"]
                    ELSE IF frontier = None
                    THEN [ok |-> FALSE, err |-> "AccountNotFound"]
                    ELSE create_send_block(payment, frontier)
       IN  IF ~built.ok
           THEN /\ cmd' = Idle
                /\ last' = Finish("send", built.err)
                /\ inflight' = inflight
           ELSE \E block \in built.blocks, work_ok \in BOOLEAN :
                  IF ~work_ok
                  THEN /\ cmd' = Idle
                       /\ last' = Finish("send", "RpcCommandFailed")
                       /\ inflight' = inflight
                  ELSE /\ cmd' = [op |-> "send", block |-> block]
                       /\ last' = NoResult
                       /\ inflight' = inflight \cup {block}

PublishOutcomes == {"ok", "process_failed", "prefetch_failed"}

\* error of ClientRpc::auto_publish_unsynced for an outcome other than "ok"
publish_err(out) ==
    IF out = "process_failed" THEN "RpcCommandFailed" ELSE "WorkServerDisconnected"

\* a node rejects a block that forks the chain of its account
accepts(block) ==
    ~\E b \in published : b.account = block.account /\ b.previous = block.previous

\* the process RPC of a send completes; the new frontier is stored
SendDone ==
    /\ cmd.op = "send"
    /\ \E out \in PublishOutcomes :
        /\ out # "process_failed" => accepts(cmd.block)
        /\ inflight' = inflight \ {cmd.block}
        /\ published' = IF out = "process_failed" THEN published
                        ELSE published \cup {cmd.block}
        /\ IF out = "ok"
           THEN /\ frontiers_db' = set_new_frontiers(frontiers_db,
                                       <<FrontierInfo_new(cmd.block, NoWork)>>)
                /\ last' = Finish("send", "none")
           ELSE /\ frontiers_db' = frontiers_db
                /\ last' = Finish("send", publish_err(out))
    /\ cmd' = Idle
    /\ UNCHANGED <<config, wallet_db, receivable, ops>>

Payments ==
    [sender : WalletAccounts, amount : 0..U128_MAX,
     recipient : {"a1", "x1"}, new_representative : {None}]

-----------------------------------------------------------------------------
(* Stealth (camo) send *)

CAMO_SENDER_DUST_THRESHOLD == 1

Max(a, b) == IF a >= b THEN a ELSE b

\* CoreClient::accounts_with_balance: frontiers of wallet accounts with
\* balance >= amount, excluding some, lowest balance first
accounts_with_balance(db, amount, exclude) ==
    LET ok(a) == /\ a \in wallet_db.account_db
                 /\ a \notin exclude
                 /\ account_frontier(db, a) # None
                 /\ account_frontier(db, a).block.balance >= amount
        cands == {a \in Accounts : ok(a)}
    IN  {a \in cands : \A b \in cands :
            account_frontier(db, a).block.balance <= account_frontier(db, b).block.balance}

\* the argument handling of SendCamoArgs::execute: the CamoPayment, or the error
SendCamoArgs_payment(args, notifier) ==
    IF args.notifier_amount < CAMO_SENDER_DUST_THRESHOLD
    THEN [ok |-> FALSE, err |-> "AmountBelowDustThreshold"]
    ELSE IF args.amount < Max(args.notifier_amount, CAMO_SENDER_DUST_THRESHOLD)
    THEN [ok |-> FALSE, err |-> "AmountBelowDustThreshold"]
    ELSE IF ~find_key(args.sender) \/ account_frontier(frontiers_db, args.sender) = None
    THEN [ok |-> FALSE, err |-> "AccountNotFound"]   \* camo_transaction_memo
    ELSE [ok |-> TRUE,
          payment |-> [sender |-> args.sender,
                       sender_amount |-> args.amount - args.notifier_amount,
                       notifier |-> notifier,
                       notification_amount |-> args.notifier_amount,
                       recipient |-> args.recipient]]

\* the notifier SendCamoArgs::execute uses: the one given, or with --auto the
\* poorest other account that can pay the notification, else the sender
SendCamoArgs_notifiers(args) ==
    IF args.notifier # None THEN {args.notifier.account}
    ELSE LET auto == accounts_with_balance(frontiers_db, args.notifier_amount,
                         {args.sender, signer_account(args.recipient)})
         IN  IF auto = {} THEN {args.sender} ELSE auto

masked_payment(payment) ==
    [sender |-> payment.sender, amount |-> payment.sender_amount,
     recipient |-> derive_account(payment.recipient), new_representative |-> None]

notify_payment(payment) ==
    [sender |-> payment.notifier, amount |-> payment.notification_amount,
     recipient |-> notification_of(payment.recipient).recipient,
     new_representative |->
        [rep |-> notification_of(payment.recipient).representative_payload]]

\* client/core/src/client/send.rs _send_camo_same, up to the first process RPC:
\* both blocks are created against the stored frontier of the sender
send_camo_same(payment) ==
    LET sender_frontier == account_frontier(frontiers_db, payment.sender)
    IN  IF sender_frontier = None THEN [ok |-> FALSE, err |-> "AccountNotFound"]
        ELSE IF sender_frontier.block.balance
                  < payment.notification_amount + payment.sender_amount
        THEN [ok |-> FALSE, err |-> "NotEnoughCoins"]
        ELSE IF ~find_key(payment.sender) THEN [ok |-> FALSE, err |-> "AccountNotFound"]
        ELSE LET send_block == create_send_block(masked_payment(payment), sender_frontier)
                 notify_block == create_send_block(notify_payment(payment), sender_frontier)
             IN  IF ~send_block.ok THEN send_block
                 ELSE IF ~notify_block.ok THEN notify_block
                 ELSE [ok |-> TRUE,
                       plans |-> {[mode |-> "same", stage |-> "notify",
                                   payment |-> payment,
                                   notification_block |-> n, send_block |-> s] :
                                  n \in notify_block.blocks, s \in send_block.blocks}]

\* client/core/src/client/send.rs send_camo with two accounts, up to the first
\* process RPC (work for both blocks is already attached)
send_camo_distinct(payment) ==
    LET sender_frontier == account_frontier(frontiers_db, payment.sender)
        notifier_frontier == account_frontier(frontiers_db, payment.notifier)
    IN  IF sender_frontier = None \/ notifier_frontier = None
        THEN [ok |-> FALSE, err |-> "AccountNotFound"]
        ELSE IF ~find_key(payment.sender) THEN [ok |-> FALSE, err |-> "AccountNotFound"]
        ELSE LET send_block == create_send_block(masked_payment(payment), sender_frontier)
                 notify_block == create_send_block(notify_payment(payment), notifier_frontier)
             IN  IF ~send_block.ok THEN send_block
                 ELSE IF ~notify_block.ok THEN notify_block
                 ELSE [ok |-> TRUE,
                       plans |-> {[mode |-> "distinct", stage |-> "notify",
                                   payment |-> payment,
                                   notification_block |-> n, send_block |-> s] :
                                  n \in notify_block.blocks, s \in send_block.blocks}]

\* send_camo reaches get_work for both blocks: two accounts with frontiers
work_before_blocks(payment) ==
    /\ payment.sender # signer_account(payment.recipient)
    /\ payment.notifier # signer_account(payment.recipient)
    /\ payment.notifier # payment.sender
    /\ account_frontier(frontiers_db, payment.sender) # None
    /\ account_frontier(frontiers_db, payment.notifier) # None

\* client/core/src/client/send.rs send_camo
send_camo(payment) ==
    IF payment.sender = signer_account(payment.recipient)
    THEN [ok |-> FALSE, err |-> "InvalidPayment"]
    ELSE IF payment.notifier = signer_account(payment.recipient)
    THEN [ok |-> FALSE, err |-> "InvalidPayment"]
    ELSE IF payment.notifier = payment.sender THEN send_camo_same(payment)
    ELSE send_camo_distinct(payment)

\* client/src/client/send.rs _send_camo_same, up to the first process RPC:
\* the masked block is created and published before the notification block
send_camo_same_legacy(payment) ==
    LET sender_frontier == account_frontier(frontiers_db, payment.sender)
    IN  IF sender_frontier = None \/ ~find_key(payment.sender)
        THEN [ok |-> FALSE, err |-> "AccountNotFound"]
        ELSE LET send_block == create_send_block(masked_payment(payment), sender_frontier)
             IN  IF ~send_block.ok THEN send_block
                 ELSE [ok |-> TRUE,
                       plans |-> {[mode |-> "same_legacy", stage |-> "masked",
                                   payment |-> payment,
                                   notification_block |-> None, send_block |-> s] :
                                  s \in send_block.blocks}]

\* the block whose process RPC a stealth send is waiting for
CamoCurrent(c) == IF c.stage = "notify" THEN c.notification_block ELSE c.send_block

\* a stealth send runs until its first process RPC is issued, or fails before;
\* work_first: the work of both blocks is fetched before the blocks are created
CamoBegin(started, work_first) ==
    /\ Start
    /\ UNCHANGED <<config, wallet_db, frontiers_db, receivable>>
    /\ IF ~started.ok
       THEN /\ cmd' = Idle
            /\ \E work_ok \in BOOLEAN :
                 last' = [op |-> "send_camo", mode |-> "none",
                          err |-> IF work_first /\ ~work_ok THEN "RpcCommandFailed"
                                  ELSE started.err]
            /\ inflight' = inflight
       ELSE \E plan \in started.plans, work_ok \in BOOLEAN :
              IF ~work_ok
              THEN /\ cmd' = Idle
                   /\ last' = [op |-> "send_camo", err |-> "RpcCommandFailed",
                               mode |-> "none"]
                   /\ inflight' = inflight
              ELSE /\ cmd' = [op |-> "send_camo"] @@ plan
                   /\ last' = NoResult
                   /\ inflight' = inflight \cup {CamoCurrent(plan)}

\* SendCamoArgs::execute with CoreClient::send_camo
SendCamo(args) ==
    \E notifier \in SendCamoArgs_notifiers(args) :
        LET parsed == SendCamoArgs_payment(args, notifier)
        IN  CamoBegin(IF parsed.ok THEN send_camo(parsed.payment) ELSE parsed,
                      parsed.ok /\ work_before_blocks(parsed.payment))

\* the same command on the client/src revision of the engine, where sender
\* and notifier are the same account
SendCamoLegacy(args) ==
    /\ args.notifier = [account |-> args.sender]
    /\ LET parsed == SendCamoArgs_payment(args, args.sender)
       IN  CamoBegin(IF parsed.ok THEN send_camo_same_legacy(parsed.payment) ELSE parsed,
                     FALSE)

\* what a stealth send that reached its first process RPC returned
CamoResult(err) ==
    [op |-> "send_camo", err |-> err, mode |-> cmd.mode, stage |-> cmd.stage,
     payment |-> cmd.payment, notification_block |-> cmd.notification_block,
     send_block |-> cmd.send_block]

\* send_camo returns an error: SendCamoArgs::execute returns it at once
CamoFail(err) ==
    /\ cmd' = Idle
    /\ last' = CamoResult(err)
    /\ frontiers_db' = frontiers_db

\* send_camo returns new frontiers: SendCamoArgs::execute stores them
CamoFinish(frontiers) ==
    /\ cmd' = Idle
    /\ last' = CamoResult("none")
    /\ frontiers_db' = set_new_frontiers(frontiers_db, frontiers)

\* the process RPC of the notification block completes
CamoNotifyDone ==
    /\ cmd.op = "send_camo" /\ cmd.stage = "notify"
    /\ UNCHANGED <<config, wallet_db, receivable, ops>>
    /\ \E out \in PublishOutcomes, work_ok \in BOOLEAN :
        /\ cmd.mode = "distinct" => out # "prefetch_failed"   \* ClientRpc::publish
        /\ out # "process_failed" => accepts(cmd.notification_block)
        /\ published' = IF out = "process_failed" THEN published
                        ELSE published \cup {cmd.notification_block}
        /\ IF out # "ok"
           THEN /\ CamoFail(publish_err(out))
                /\ inflight' = inflight \ {cmd.notification_block}
           ELSE IF cmd.mode = "same_legacy"
           THEN /\ CamoFinish(<<FrontierInfo_new(cmd.notification_block, NoWork)>>)
                /\ inflight' = inflight \ {cmd.notification_block}
           ELSE IF cmd.mode = "same" /\ ~work_ok
           THEN /\ CamoFail("RpcCommandFailed")
                /\ inflight' = inflight \ {cmd.notification_block}
           ELSE /\ cmd' = [cmd EXCEPT !.stage = "masked"]
                /\ last' = NoResult
                /\ frontiers_db' = frontiers_db
                /\ inflight' = (inflight \ {cmd.notification_block}) \cup {cmd.send_block}

\* the process RPC of the masked block completes
CamoMaskedDone ==
    /\ cmd.op = "send_camo" /\ cmd.stage = "masked"
    /\ UNCHANGED <<config, wallet_db, receivable, ops>>
    /\ \E out \in PublishOutcomes, work_ok \in BOOLEAN :
        /\ cmd.mode = "distinct" => out # "prefetch_failed"   \* ClientRpc::publish
        /\ out # "process_failed" => accepts(cmd.send_block)
        /\ published' = IF out = "process_failed" THEN published
                        ELSE published \cup {cmd.send_block}
        /\ IF out # "ok"
           THEN /\ CamoFail(publish_err(out))
                /\ inflight' = inflight \ {cmd.send_block}
           ELSE IF cmd.mode = "distinct"
           THEN /\ CamoFinish(<<FrontierInfo_new(cmd.notification_block, NoWork),
                                FrontierInfo_new(cmd.send_block, NoWork)>>)
                /\ inflight' = inflight \ {cmd.send_block}
           ELSE IF cmd.mode = "same"
           THEN /\ CamoFinish(<<FrontierInfo_new(cmd.send_block, NoWork)>>)
                /\ inflight' = inflight \ {cmd.send_block}
           ELSE LET built == create_send_block(notify_payment(cmd.payment),
                                 FrontierInfo_new(cmd.send_block, NoWork))
                IN  IF ~built.ok
                    THEN /\ CamoFail(built.err)
                         /\ inflight' = inflight \ {cmd.send_block}
                    ELSE IF ~work_ok
                    THEN /\ CamoFail("RpcCommandFailed")
                         /\ inflight' = inflight \ {cmd.send_block}
                    ELSE \E n \in built.blocks :
                           /\ cmd' = [cmd EXCEPT !.stage = "notify",
                                                 !.notification_block = n]
                           /\ last' = NoResult
                           /\ frontiers_db' = frontiers_db
                           /\ inflight' = (inflight \ {cmd.send_block}) \cup {n}

CamoArgs ==
    [sender : WalletAccounts, amount : 1..U128_MAX, recipient : CamoAccounts,
     notifier : {None} \cup {[account |-> a] : a \in WalletAccounts},
     notifier_amount : 0..1]

-----------------------------------------------------------------------------
(* Receive *)

Range(f) == {f[i] : i \in DOMAIN f}

\* the sequences that pick one element of each set of a sequence of sets
ChoiceSeqs(sets) ==
    {c \in [1..Len(sets) -> UNION Range(sets)] : \A i \in 1..Len(sets) : c[i] \in sets[i]}

\* the orders in which a HashMap can iterate over a set
Orders(S) ==
    {o \in [1..Cardinality(S) -> S] : \A i, j \in 1..Cardinality(S) : o[i] = o[j] => i = j}

\* create_receive_block: the blocks the choice of a representative allows, or
\* an error
create_receive_block(r, recipient_frontier) ==
    IF recipient_frontier.block.balance + r.amount > U128_MAX
    THEN [ok |-> FALSE, err |-> "FrontierBalanceOverflow"]
    ELSE LET previous == IF is_unopened(recipient_frontier) THEN ZERO_HASH
                         ELSE Hash(recipient_frontier.block)
             work == IF recipient_frontier.cached_work # NoWork
                     THEN recipient_frontier.cached_work ELSE ZERO_WORK
             signed == sign_block([account |-> r.recipient])
         IN  IF ~signed.ok THEN signed
             ELSE [ok |-> TRUE,
                   blocks |->
                     {[block_type |-> "Receive", account |-> r.recipient,
                       previous |-> previous, representative |-> rep,
                       balance |-> recipient_frontier.block.balance + r.amount,
                       link |-> r.block_hash, work |-> work] :
                      rep \in choose_representatives(
                                  recipient_frontier.block.representative, None)}]

\* a chunk_has_account that never finds the account
chunk_has_account_never(chunk, account) == FALSE

chunk_has_account(chunk, account) ==
    \E i \in 1..Len(chunk) : chunk[i].recipient = account

\* index of the first chunk that takes the receivable, 0 if none does
RECURSIVE first_chunk(_, _, _, _)
first_chunk(chunks, r, batch, k) ==
    IF k > Len(chunks) THEN 0
    ELSE IF ~chunk_has_account(chunks[k], r.recipient) /\ ~(Len(chunks[k]) >= batch)
    THEN k
    ELSE first_chunk(chunks, r, batch, k + 1)

RECURSIVE chunks_loop(_, _, _, _)
chunks_loop(chunks, receivables, batch, n) ==
    IF n > Len(receivables) THEN chunks
    ELSE LET k == first_chunk(chunks, receivables[n], batch, 1)
         IN  chunks_loop(IF k # 0
                         THEN [chunks EXCEPT ![k] = Append(@, receivables[n])]
                         ELSE Append(chunks, <<receivables[n]>>),
                         receivables, batch, n + 1)

\* core_client receive.rs chunks_receivable
chunks_receivable(batch, receivables) == chunks_loop(<<>>, receivables, batch, 1)

\* client/core receive.rs: one receivable after the other, in input order
serial_receivable(receivables) ==
    [n \in 1..Len(receivables) |-> <<receivables[n]>>]

known_frontier(db, r) == account_frontier(db, r.recipient) # None

\* the first loop of receive: the shadow frontiers of the recipients
shadow_frontiers(db, receivables) ==
    [a \in {receivables[n].recipient : n \in
               {m \in 1..Len(receivables) : known_frontier(db, receivables[m])}}
        |-> account_frontier(db, a)]

\* core_client receive.rs: receivables with unknown frontier are dropped
filter_known(db, receivables) == SelectSeq(receivables, LAMBDA r : known_frontier(db, r))

Pending(block) == [state |-> "pending", block |-> block, err |-> "none", of |-> block.link]
Failed(err, hash) == [state |-> "err", block |-> None, err |-> err, of |-> hash]
Succeeded(block) == [state |-> "ok", block |-> block, err |-> "none", of |-> block.link]

\* one result of a batch is processed
collect_one(c, res) ==
    IF res.state = "ok"
    THEN [c EXCEPT !.successfully_received = @ \cup {res.block.link},
                   !.frontiers = (res.block.account :> FrontierInfo_new(res.block, NoWork)) @@ @,
                   !.ok_blocks = @ \cup {res.block}]
    ELSE [c EXCEPT !.err = res.err, !.errors = Append(@, res)]

\* a loop over the results that does not advance the shadow frontiers
RECURSIVE collect_no_shadow(_, _, _)
collect_no_shadow(c, results, n) ==
    IF n > Len(results) THEN c
    ELSE collect_no_shadow([collect_one(c, results[n]) EXCEPT !.frontiers = c.frontiers],
                           results, n + 1)

\* a loop over the results that returns at the first error
RECURSIVE collect_stop_at_error(_, _, _)
collect_stop_at_error(c, results, n) ==
    IF n > Len(results) \/ c.err # "none" THEN c
    ELSE collect_stop_at_error(collect_one(c, results[n]), results, n + 1)

\* the loop over the results of a batch, in the order of the chunk
RECURSIVE collect(_, _, _)
collect(c, results, n) ==
    IF n > Len(results) THEN c
    ELSE collect(collect_one(c, results[n]), results, n + 1)

remove_receivable(map, account) ==
    [h \in {k \in DOMAIN map : map[k].recipient # account} |-> map[h]]

\* an insert_receivable that inserts nothing
insert_receivable_dropped(map, receivables) == map

insert_receivable(map, receivables) ==
    [h \in DOMAIN map \cup {r.block_hash : r \in receivables} |->
        IF \E r \in receivables : r.block_hash = h
        THEN CHOOSE r \in receivables : r.block_hash = h
        ELSE map[h]]

\* the receivables of a receive that were not successfully received
unreceived_of(c) ==
    {c.receivables[n] : n \in {m \in 1..Len(c.receivables) :
        c.receivables[m].block_hash \notin c.successfully_received}}

Panicked == [op |-> "panicked"]

\* receive returns and ReceiveArgs::execute stores frontiers and unreceived
ReceiveReturn(c, map) ==
    IF (c.err = "none") # (unreceived_of(c) = {})
    THEN /\ cmd' = Panicked       \* assert!("broken receive code")
         /\ UNCHANGED <<frontiers_db, inflight>> /\ last' = NoResult
         /\ receivable' = map
    ELSE /\ cmd' = Idle
         /\ inflight' = inflight
         /\ \E o \in Orders(DOMAIN c.frontiers) :
              frontiers_db' = set_new_frontiers(frontiers_db,
                                  [n \in DOMAIN o |-> c.frontiers[o[n]]])
         /\ receivable' = insert_receivable(map,
                              IF c.err = "none" THEN {} ELSE unreceived_of(c))
         /\ last' = [op |-> "receive", err |-> c.err, called |-> TRUE,
                     before |-> c.before, input |-> c.input, errors |-> c.errors,
                     ok_blocks |-> c.ok_blocks,
                     received |-> c.successfully_received,
                     unreceived |-> IF c.err = "none" THEN {} ELSE unreceived_of(c)]

\* the futures of the next chunk are created and started
ReceiveIssue(c, map) ==
    LET chunk == c.chunks[c.i]
    IN  IF \E n \in 1..Len(chunk) : chunk[n].recipient \notin DOMAIN c.frontiers
        THEN /\ cmd' = Panicked   \* expect("Failed to catch invalid receivable")
             /\ UNCHANGED <<frontiers_db, inflight>> /\ last' = NoResult
             /\ receivable' = map
        ELSE LET built == [n \in 1..Len(chunk) |->
                             create_receive_block(chunk[n], c.frontiers[chunk[n].recipient])]
                 sets == [n \in 1..Len(chunk) |->
                             IF built[n].ok THEN built[n].blocks ELSE {None}]
             IN  \E bs \in ChoiceSeqs(sets), work_ok \in [1..Len(chunk) -> BOOLEAN] :
                   LET results == [n \in 1..Len(chunk) |->
                                     IF ~built[n].ok
                                     THEN Failed(built[n].err, chunk[n].block_hash)
                                     ELSE IF ~work_ok[n]
                                     THEN Failed("RpcCommandFailed", chunk[n].block_hash)
                                     ELSE Pending(bs[n])]
                   IN  /\ \A n \in 1..Len(chunk) : ~built[n].ok => work_ok[n]
                       /\ cmd' = [c EXCEPT !.results = results]
                       /\ inflight' = inflight \cup
                             {results[n].block : n \in
                                {m \in 1..Len(chunk) : results[m].state = "pending"}}
                       /\ receivable' = map
                       /\ frontiers_db' = frontiers_db /\ last' = NoResult

\* receive moves on to chunk c.i, or returns when there is none
ReceiveAdvance(c, map) ==
    IF c.i > Len(c.chunks) THEN ReceiveReturn(c, map) ELSE ReceiveIssue(c, map)

\* the entries ReceiveArgs::execute takes out of the cached map for --blocks:
\* removal stops at the first hash that is not in the map
RECURSIVE take_blocks(_, _, _, _)
take_blocks(map, blocks, n, taken) ==
    IF n > Len(blocks) THEN [ok |-> TRUE, map |-> map, receivables |-> taken]
    ELSE IF blocks[n] \notin DOMAIN map THEN [ok |-> FALSE, map |-> map]
    ELSE take_blocks([h \in DOMAIN map \ {blocks[n]} |-> map[h]], blocks, n + 1,
                     Append(taken, map[blocks[n]]))

receive_start(revision, batch, receivables) ==
    LET kept == IF revision = "chunked" THEN filter_known(frontiers_db, receivables)
                ELSE receivables
    IN  [op |-> "receive", revision |-> revision, input |-> receivables,
         receivables |-> kept,
         frontiers |-> shadow_frontiers(frontiers_db, receivables),
         chunks |-> IF revision = "chunked"
                    THEN chunks_receivable(batch, kept)
                    ELSE serial_receivable(kept),
         i |-> 1, results |-> <<>>, successfully_received |-> {}, err |-> "none",
         \* for the record: the map's keys at the start, the blocks of the Ok
         \* results and the Err results so far
         before |-> DOMAIN receivable, ok_blocks |-> {}, errors |-> <<>>]

Revisions == {"chunked", "serial"}

\* ReceiveArgs::execute with --blocks, up to the first batch of process RPCs
ReceiveBlocks(blocks, revision) ==
    /\ Start
    /\ UNCHANGED <<config, wallet_db>>
    /\ LET taken == take_blocks(receivable, blocks, 1, <<>>)
       IN  IF ~taken.ok
           THEN /\ cmd' = Idle
                /\ receivable' = taken.map
                /\ last' = [op |-> "receive", err |-> "AccountNotFound",
                            called |-> FALSE, before |-> DOMAIN receivable]
                /\ UNCHANGED <<frontiers_db, inflight>>
           ELSE ReceiveAdvance(receive_start(revision, config.RPC_RECEIVE_TRANSACTIONS_BATCH_SIZE,
                                            taken.receivables), taken.map)

\* ReceiveArgs::execute with --accounts, up to the first batch of process RPCs
ReceiveAccounts(accounts, revision) ==
    /\ Start
    /\ UNCHANGED <<config, wallet_db>>
    /\ LET hashes == {h \in DOMAIN receivable : receivable[h].recipient \in accounts}
       IN  \E o \in Orders(hashes) :
             ReceiveAdvance(
                 receive_start(revision, config.RPC_RECEIVE_TRANSACTIONS_BATCH_SIZE,
                               [n \in DOMAIN o |-> receivable[o[n]]]),
                 [h \in DOMAIN receivable \ hashes |-> receivable[h]])

\* the process RPC of one receive block of the running batch completes
ReceiveRpcDone ==
    /\ cmd.op = "receive"
    /\ UNCHANGED <<config, wallet_db, frontiers_db, receivable, last, ops>>
    /\ \E n \in 1..Len(cmd.results), out \in PublishOutcomes :
        /\ cmd.results[n].state = "pending"
        /\ out # "process_failed" => accepts(cmd.results[n].block)
        /\ inflight' = inflight \ {cmd.results[n].block}
        /\ published' = IF out = "process_failed" THEN published
                        ELSE published \cup {cmd.results[n].block}
        /\ cmd' = [cmd EXCEPT !.results[n] =
                      IF out = "ok" THEN Succeeded(@.block)
                      ELSE Failed(publish_err(out), @.of)]

\* the batch is complete: its results are processed and receive moves on
ReceiveCollect ==
    /\ cmd.op = "receive"
    /\ \A n \in 1..Len(cmd.results) : cmd.results[n].state # "pending"
    /\ UNCHANGED <<config, wallet_db, published, ops>>
    /\ ReceiveAdvance([collect(cmd, cmd.results, 1) EXCEPT !.i = @ + 1, !.results = <<>>],
                      receivable)

\* RemoveArgs::execute for a nano_ account: Client::remove_account
RemoveAccount(account) ==
    /\ Start
    /\ UNCHANGED <<config, inflight>>
    /\ receivable' = remove_receivable(receivable, account)
    /\ wallet_db' = [wallet_db EXCEPT !.account_db = @ \ {account}]
    /\ frontiers_db' = FrontiersDB_remove(frontiers_db, account).db
    /\ cmd' = Idle
    /\ last' = Finish("remove",
                  IF account \notin wallet_db.account_db
                     \/ ~FrontiersDB_remove(frontiers_db, account).ok
                  THEN "AccountNotFound" ELSE "none")

\* the network's answer to the publication of each receivable
NetOutcomes == [{r.block_hash : r \in Receivables} -> PublishOutcomes]

\* receive from its first chunk to its last, the outcome of every publication
\* being given
RECURSIVE run_chunks(_, _)
run_chunks(c, net) ==
    IF c.i > Len(c.chunks) THEN c
    ELSE LET chunk == c.chunks[c.i]
             result(r) ==
                 LET built == create_receive_block(r, c.frontiers[r.recipient])
                 IN  IF ~built.ok THEN Failed(built.err, r.block_hash)
                     ELSE IF net[r.block_hash] = "ok"
                     THEN Succeeded(CHOOSE b \in built.blocks : TRUE)
                     ELSE Failed(publish_err(net[r.block_hash]), r.block_hash)
             results == [n \in 1..Len(chunk) |-> result(chunk[n])]
         IN  run_chunks([collect(c, results, 1) EXCEPT !.i = @ + 1], net)

\* the hashes a receive of the list reports as received
received_by(batch, receivables, net) ==
    run_chunks(receive_start("chunked", batch, receivables), net).successfully_received

\* two receive calls on one wallet state and one set of receivables, with the
\* same outcome of every publication: one in some fixed order with the
\* configured batch size, one in any order with any batch size
Compare(first, second, batch, net) ==
    /\ cmd = Idle
    /\ cmd' = [op |-> "compared", first |-> first, second |-> second,
               batch |-> batch, net |-> net,
               received_first |-> received_by(
                   config.RPC_RECEIVE_TRANSACTIONS_BATCH_SIZE, first, net),
               received_second |-> received_by(batch, second, net)]
    /\ UNCHANGED <<config, wallet_db, frontiers_db, receivable, last, inflight,
                   published, ops>>

BlockArgs ==
    {<<h>> : h \in Hashes} \cup {<<h, k>> : h \in Hashes, k \in Hashes}

AccountArgs == {{"a1"}, {"a2"}, {"a1", "a2"}}

-----------------------------------------------------------------------------
(* Initial states: a wallet loaded from its file *)

InitFrontiers ==
    { <<g>> : g \in {new_unopened("a2"), opened("a2", 1)} } \cup
    { <<f, g>> : f \in {new_unopened("a1"), opened("a1", 2)},
                 g \in {new_unopened("a2"), opened("a2", 1)} }

RECURSIVE sum_balances(_, _)
sum_balances(frontiers, i) ==
    IF i > Len(frontiers) THEN 0
    ELSE frontiers[i].block.balance + sum_balances(frontiers, i + 1)

\* the wallet data of a wallet loaded from its file
Loaded ==
    /\ wallet_db = [account_db |-> WalletAccounts]
    /\ \E fs \in InitFrontiers :
         frontiers_db = [frontiers |-> fs, frontiers_balance |-> sum_balances(fs, 1)]
    /\ receivable = [h \in {r.block_hash : r \in Receivables} |->
                        CHOOSE r \in Receivables : r.block_hash = h]
    /\ cmd = Idle
    /\ last = NoResult
    /\ inflight = {}
    /\ published = {}
    /\ ops = 0

Init ==
    /\ config \in [RPC_RECEIVE_TRANSACTIONS_BATCH_SIZE : 0..MaxBatch,
                   ENABLE_WORK_CACHE : {TRUE}]
    /\ Loaded

Next ==
    \/ \E p \in Payments : Send(p)
    \/ SendDone
    \/ \E args \in CamoArgs : SendCamo(args)
    \/ \E args \in CamoArgs : SendCamoLegacy(args)
    \/ CamoNotifyDone
    \/ CamoMaskedDone
    \/ \E blocks \in BlockArgs, revision \in Revisions : ReceiveBlocks(blocks, revision)
    \/ \E accounts \in AccountArgs, revision \in Revisions :
          ReceiveAccounts(accounts, revision)
    \/ ReceiveRpcDone
    \/ ReceiveCollect
    \/ \E account \in Accounts : RemoveAccount(account)

Spec == Init /\ [][Next]_vars

OrderNext ==
    \E S \in SUBSET Receivables, batch \in 0..MaxBatch, net \in NetOutcomes :
        \E second \in Orders(S) :
            Compare(CHOOSE first \in Orders(S) : TRUE, second, batch, net)

OrderSpec == Init /\ [][OrderNext]_vars

-----------------------------------------------------------------------------
(* Stealth send: order of the two publications, chaining, partial failure *)

\* C1, as the specification states it: whenever the process RPC of the masked
\* block is issued, the process RPC of the notification block has completed
\* successfully before.
C1_Original ==
    (cmd.op = "send_camo" /\ cmd.send_block \in inflight)
        => cmd.notification_block \in published

\* C2, as the specification states it: with notifier = sender the masked block
\* is built on the notification block: its previous is the hash of the
\* notification block and its balance is F.balance - notification_amount -
\* sender_amount, F being the stored frontier.
C2_Original ==
    (cmd.op = "send_camo" /\ cmd.mode = "same")
        => LET F == account_frontier(frontiers_db, cmd.payment.sender)
           IN  /\ cmd.send_block.previous = Hash(cmd.notification_block)
               /\ cmd.send_block.balance =
                     F.block.balance - cmd.payment.notification_amount
                                     - cmd.payment.sender_amount

\* C3, as the specification states it: with a distinct notifier, when the
\* notification block was published and the masked block's process RPC failed,
\* the notifier's stored frontier is the notification block after the command.
C3_Original ==
    (last.op = "send_camo" /\ last.mode = "distinct" /\ last.stage = "masked"
        /\ last.err # "none")
        => account_frontier(frontiers_db, last.payment.notifier)
              = FrontierInfo_new(last.notification_block, NoWork)

-----------------------------------------------------------------------------
(* Send with too large an amount *)

\* the sender of the payment has a frontier whose balance is below the amount
Overdrawn(p) ==
    /\ account_frontier(frontiers_db, p.sender) # None
    /\ p.amount > account_frontier(frontiers_db, p.sender).block.balance

\* C10, as the specification states it: a send of more than the balance fails
\* with NotEnoughCoins before any RPC and leaves the frontier database alone.
C10_Original ==
    [][cmd = Idle => \A p \in Payments :
        (Overdrawn(p) /\ Send(p))
            => /\ last' = Finish("send", "NotEnoughCoins")
               /\ cmd' = Idle /\ inflight' = {} /\ frontiers_db' = frontiers_db]_vars

\* C10, amended: a send of more than the balance fails before any RPC and
\* leaves the frontier database alone; the error is NotEnoughCoins when the
\* recipient is another account, and InvalidPayment when the recipient is the
\* sender itself.
C10_Amended ==
    [][cmd = Idle => \A p \in Payments :
        (Overdrawn(p) /\ Send(p))
            => /\ last' = Finish("send", IF p.sender = p.recipient
                                         THEN "InvalidPayment" ELSE "NotEnoughCoins")
               /\ cmd' = Idle /\ inflight' = {} /\ frontiers_db' = frontiers_db]_vars

C10_Witness ==
    /\ last = Finish("send", "NotEnoughCoins")
    /\ cmd = Idle /\ inflight = {} /\ published = {}

-----------------------------------------------------------------------------
(* Receive: serial publication per account, chunks, bookkeeping *)

Receiving == cmd.op = "receive"

\* the receive blocks of the running batch whose process RPC is not completed
PendingBlocks ==
    {cmd.results[n].block : n \in {m \in 1..Len(cmd.results) :
                                      cmd.results[m].state = "pending"}}

\* the receive blocks of the running batch that were published successfully
BatchOkBlocks ==
    {cmd.results[n].block : n \in {m \in 1..Len(cmd.results) :
                                      cmd.results[m].state = "ok"}}

C4_Serial ==
    Receiving =>
        /\ \A n, m \in 1..Len(cmd.results) :
              (n # m /\ cmd.results[n].state = "pending"
                     /\ cmd.results[m].state = "pending")
                  => cmd.results[n].block.account # cmd.results[m].block.account
        /\ \A b \in PendingBlocks :
              IF \E ok \in cmd.ok_blocks : ok.account = b.account
              THEN /\ cmd.frontiers[b.account].block \in cmd.ok_blocks
                   /\ b.previous = Hash(cmd.frontiers[b.account].block)
              ELSE cmd.frontiers[b.account] = account_frontier(frontiers_db, b.account)
        /\ \A b1, b2 \in cmd.ok_blocks \cup BatchOkBlocks \cup PendingBlocks :
              (b1.account = b2.account /\ b1.previous = b2.previous) => b1 = b2

C4_Frame == cmd'.op = "receive" => frontiers_db' = frontiers_db

\* C4: within one receive call no two receive blocks of one account are in
\* flight at once; a block for an account that already had a successful receive
\* in this call is built on the shadow frontier, which is the block of that
\* receive; no two blocks of one account that are in flight or were published
\* successfully share their previous; and the frontier database does not change
\* while the receive runs.
C4_SerialPerAccount == []C4_Serial /\ [][C4_Frame]_vars

C4_Witness ==
    /\ Receiving
    /\ \E b \in PendingBlocks : \E ok \in cmd.ok_blocks :
          /\ ok.account = b.account
          /\ b.previous = Hash(ok)
          /\ account_frontier(frontiers_db, b.account).block # ok

Chunked == cmd.op = "receive" /\ cmd.revision = "chunked"

\* the places of the chunks where a receivable is
PlacesOf(r) ==
    {<<k, n>> \in (1..Len(cmd.chunks)) \X (1..Len(cmd.receivables)) :
        n <= Len(cmd.chunks[k]) /\ cmd.chunks[k][n] = r}

\* every receivable of the list is in one place, and the chunks hold nothing else
C5_Partition ==
    /\ \A n \in 1..Len(cmd.receivables) : Cardinality(PlacesOf(cmd.receivables[n])) = 1
    /\ \A k \in 1..Len(cmd.chunks) : \A n \in 1..Len(cmd.chunks[k]) :
          \E m \in 1..Len(cmd.receivables) : cmd.receivables[m] = cmd.chunks[k][n]

C5_DistinctRecipients ==
    \A k \in 1..Len(cmd.chunks) : \A n, m \in 1..Len(cmd.chunks[k]) :
        n # m => cmd.chunks[k][n].recipient # cmd.chunks[k][m].recipient

\* C5, as the specification states it: for every batch size the chunks are a
\* partition of the list, no chunk has a recipient twice, and no chunk holds
\* more than RPC_RECEIVE_TRANSACTIONS_BATCH_SIZE receivables.
C5_Original ==
    Chunked =>
        /\ C5_Partition
        /\ C5_DistinctRecipients
        /\ \A k \in 1..Len(cmd.chunks) :
              Len(cmd.chunks[k]) <= config.RPC_RECEIVE_TRANSACTIONS_BATCH_SIZE

\* C5, amended: the chunks are a partition of the list and no chunk has a
\* recipient twice; with a batch size of at least 1 no chunk holds more than
\* the batch size, with a batch size of 0 every chunk holds one receivable.
C5_Amended ==
    Chunked =>
        /\ C5_Partition
        /\ C5_DistinctRecipients
        /\ \A k \in 1..Len(cmd.chunks) :
              IF config.RPC_RECEIVE_TRANSACTIONS_BATCH_SIZE >= 1
              THEN Len(cmd.chunks[k]) <= config.RPC_RECEIVE_TRANSACTIONS_BATCH_SIZE
              ELSE Len(cmd.chunks[k]) = 1

C5_Witness ==
    /\ Chunked
    /\ Len(cmd.receivables) = 3
    /\ \E k \in 1..Len(cmd.chunks) : Len(cmd.chunks[k]) = 2
    /\ Len(cmd.chunks) = 2

\* C6, as the specification states it: when receive returns, every receivable
\* passed in whose hash is not among the successfully received is in
\* ReceiveFailure.unreceived.
C6_Original ==
    (last.op = "receive" /\ last.called)
        => \A n \in 1..Len(last.input) :
              last.input[n].block_hash \notin last.received
                  => last.input[n] \in last.unreceived

\* C7, as the specification states it: after a receive command, a receivable
\* that was in the cached map before is still in it unless a receive block
\* consuming it was published.
C7_Original ==
    last.op = "receive"
        => \A h \in last.before :
              \/ h \in DOMAIN receivable
              \/ \E b \in published : b.block_type = "Receive" /\ b.link = h

\* no recipient's balance can overflow, in whatever order the list is received
NoOverflow(receivables) ==
    \A i \in 1..Len(frontiers_db.frontiers) :
        LET f == frontiers_db.frontiers[i]
            RECURSIVE total(_)
            total(n) == IF n > Len(receivables) THEN 0
                        ELSE (IF receivables[n].recipient = f.block.account
                              THEN receivables[n].amount ELSE 0) + total(n + 1)
        IN  f.block.balance + total(1) <= U128_MAX

Overflowed ==
    {last.errors[n].of : n \in {m \in 1..Len(last.errors) :
                                   last.errors[m].err = "FrontierBalanceOverflow"}}

C9_NotConsumed ==
    \A h \in Overflowed :
        /\ h \in DOMAIN receivable
        /\ h \in {r.block_hash : r \in last.unreceived}
        /\ ~\E b \in published : b.block_type = "Receive" /\ b.link = h

\* C9, as the specification states it: a receive of a receivable whose amount
\* overflows the recipient's balance fails with FrontierBalanceOverflow,
\* publishes no block for it and leaves it in the cached map.
C9_Original ==
    (last.op = "receive" /\ last.called /\ Overflowed # {})
        => last.err = "FrontierBalanceOverflow" /\ C9_NotConsumed

\* C9, amended: when receive returns after the balance check rejected a
\* receivable, the command fails, with FrontierBalanceOverflow unless a later
\* receivable of the same call failed too, whose error is then returned; no
\* block is published for the rejected receivable, it is reported as unreceived
\* and it is in the cached map after the command.
C9_Amended ==
    (last.op = "receive" /\ last.called /\ Overflowed # {})
        => /\ last.err = last.errors[Len(last.errors)].err
           /\ last.err # "none"
           /\ C9_NotConsumed

C9_Witness ==
    /\ last.op = "receive" /\ last.called /\ Overflowed # {}
    /\ last.err = "FrontierBalanceOverflow"
    /\ Overflowed \subseteq DOMAIN receivable

-----------------------------------------------------------------------------
(* Block construction *)

\* C11, as the specification states it: no send block is built on the unopened
\* sentinel, whatever the amount: no send block in flight or published has the
\* zero hash as its previous.
C11_Original ==
    \A b \in inflight \cup published :
        b.block_type = "Send" => b.previous # ZERO_HASH

\* the frontier holds the sentinel block of an account without blocks
IsSentinel(F) == F.block = new_unopened(F.block.account).block

\* the receive blocks in flight carry the fields the specification gives them
C12_ReceiveFields ==
    Receiving =>
        \A n \in 1..Len(cmd.results) :
            cmd.results[n].state = "pending" =>
                LET b == cmd.results[n].block
                    r == cmd.chunks[cmd.i][n]
                    F == cmd.frontiers[r.recipient]
                IN  /\ b.block_type = "Receive" /\ b.account = r.recipient
                    /\ (b.previous = ZERO_HASH) <=> IsSentinel(F)
                    /\ ~IsSentinel(F) => b.previous = Hash(F.block)
                    /\ b.balance = F.block.balance + r.amount
                    /\ b.link = r.block_hash

\* the send block a send command builds carries the fields the specification
\* gives it
C12_SendFields ==
    cmd = Idle => \A p \in Payments :
        (Send(p) /\ cmd'.op = "send") =>
            LET F == account_frontier(frontiers_db, p.sender)
                b == cmd'.block
            IN  /\ b.block_type = "Send" /\ b.account = p.sender
                /\ b.previous = Hash(F.block)
                /\ b.balance = F.block.balance - p.amount
                /\ b.link = p.recipient

\* C12, as the specification states it: a receive block built on F for a
\* receivable (H, a) has previous = 0 exactly when F is the unopened sentinel and
\* previous = F.hash() otherwise, balance = F.balance + a and link = H; a send
\* block built on F has previous = F.hash(), balance = F.balance - amount and
\* link = the recipient.
C12_Original == []C12_ReceiveFields /\ [][C12_SendFields]_vars

-----------------------------------------------------------------------------
(* ClientRpc::auto_publish_unsynced, step by step: the work of the block,   *)
(* the process RPC and the request of work for the next block               *)

\* FrontierInfo::cache_work_hash
cache_work_hash(f) ==
    IF is_unopened(f) THEN <<f.block.account>> ELSE Hash(f.block)

Event(ev, hash) == [ev |-> ev, hash |-> hash]

\* WorkClient::request_work: the request is noted; it fails when the server
\* has gone, and the server can go at any time
request_work(c, hash, sent) ==
    [c EXCEPT !.events = Append(@, Event("request_work", hash)),
              !.connected = sent]

\* the results WorkClient::get_result can hold for the frontier
WorkResults == {"none", "ok", "err"}

\* auto_publish_unsynced is called by send with a stored frontier and the send
\* block built on it
AutoPublishCall(payment, cached, connected, has_result) ==
    /\ Start
    /\ account_frontier(frontiers_db, payment.sender) # None
    /\ cached # NoWork => ~is_unopened(account_frontier(frontiers_db, payment.sender))
    /\ LET stored == account_frontier(frontiers_db, payment.sender)
           frontier == FrontierInfo_new(stored.block, cached)
           built == create_send_block(payment, frontier)
       IN  /\ built.ok
           /\ \E block \in built.blocks :
                cmd' = [op |-> "auto_publish", pc |-> "get_work",
                        frontier |-> frontier, block |-> block,
                        block_hash |-> Hash(block), events |-> <<>>,
                        connected |-> connected, has_result |-> has_result,
                        err |-> "none"]
    /\ last' = NoResult
    /\ UNCHANGED <<config, wallet_db, frontiers_db, receivable, inflight>>

\* ClientRpc::get_work up to its first await
GetWork ==
    /\ cmd.op = "auto_publish" /\ cmd.pc = "get_work"
    /\ IF cmd.frontier.cached_work # NoWork \/ cmd.has_result = "ok"
       THEN cmd' = [cmd EXCEPT !.pc = "process"]
       ELSE IF cmd.has_result = "err"
       THEN cmd' = [cmd EXCEPT !.pc = "prefetch", !.err = "RpcCommandFailed"]
       ELSE \E sent \in {FALSE, cmd.connected} :
              cmd' = [request_work(cmd, cache_work_hash(cmd.frontier), sent)
                        EXCEPT !.pc = IF sent THEN "wait_on" ELSE "work_generate"]
    /\ UNCHANGED <<config, wallet_db, frontiers_db, receivable, last, inflight,
                   published, ops>>

\* WorkClient::wait_on or the work_generate RPC returns
GetWorkDone ==
    /\ cmd.op = "auto_publish" /\ cmd.pc \in {"wait_on", "work_generate"}
    /\ \E out \in {"ok", "RpcCommandFailed", "WorkServerDisconnected"} :
         /\ out = "WorkServerDisconnected" => cmd.pc = "wait_on"
         /\ cmd' = IF out = "ok" THEN [cmd EXCEPT !.pc = "process"]
                   ELSE [cmd EXCEPT !.pc = "prefetch", !.err = out,
                                    !.connected = @ /\ out # "WorkServerDisconnected"]
    /\ UNCHANGED <<config, wallet_db, frontiers_db, receivable, last, inflight,
                   published, ops>>

\* ClientRpc::publish issues the process RPC
ProcessIssue ==
    /\ cmd.op = "auto_publish" /\ cmd.pc = "process"
    /\ cmd' = [cmd EXCEPT !.pc = "processing",
                          !.events = Append(@, Event("process_issued", cmd.block_hash))]
    /\ inflight' = inflight \cup {cmd.block}
    /\ UNCHANGED <<config, wallet_db, frontiers_db, receivable, last, published, ops>>

\* the process RPC completes
ProcessDone ==
    /\ cmd.op = "auto_publish" /\ cmd.pc = "processing"
    /\ \E ok \in BOOLEAN :
         /\ ok => accepts(cmd.block)
         /\ published' = IF ok THEN published \cup {cmd.block} ELSE published
         /\ cmd' = [cmd EXCEPT !.pc = "prefetch",
                               !.err = IF ok THEN "none" ELSE "RpcCommandFailed",
                               !.events = Append(@, Event("process_done", cmd.block_hash))]
    /\ inflight' = inflight \ {cmd.block}
    /\ UNCHANGED <<config, wallet_db, frontiers_db, receivable, last, ops>>

\* the end of auto_publish_unsynced: work for the next block is requested when
\* the work cache is enabled, and the result of the publication is returned
\* unless the request failed
CacheNextWork ==
    /\ cmd.op = "auto_publish" /\ cmd.pc = "prefetch"
    /\ \E sent \in {FALSE, cmd.connected} :
         LET c == IF config.ENABLE_WORK_CACHE
                  THEN request_work(cmd, cmd.block_hash, sent) ELSE cmd
         IN  last' = [op |-> "auto_publish", block_hash |-> c.block_hash,
                      events |-> c.events,
                      err |-> IF config.ENABLE_WORK_CACHE /\ ~sent
                              THEN "WorkServerDisconnected" ELSE c.err]
    /\ cmd' = Idle
    /\ UNCHANGED <<config, wallet_db, frontiers_db, receivable, inflight,
                   published, ops>>

PublishInit ==
    /\ config \in [RPC_RECEIVE_TRANSACTIONS_BATCH_SIZE : {MaxBatch},
                   ENABLE_WORK_CACHE : BOOLEAN]
    /\ Loaded

PublishNext ==
    \/ \E p \in Payments, cached \in {NoWork, "work"}, connected \in BOOLEAN,
          has_result \in WorkResults : AutoPublishCall(p, cached, connected, has_result)
    \/ GetWork
    \/ GetWorkDone
    \/ ProcessIssue
    \/ ProcessDone
    \/ CacheNextWork

PublishSpec == PublishInit /\ [][PublishNext]_vars

\* the position in the events of the first event that is the given one, 0 when
\* there is none
FirstEvent(events, e) ==
    IF \E i \in 1..Len(events) : events[i] = e
    THEN CHOOSE i \in 1..Len(events) :
            events[i] = e /\ \A j \in 1..(i - 1) : events[j] # e
    ELSE 0

\* C13, as the specification states it: with the work cache enabled, the
\* request of work for block.hash() is made before the work of the block itself
\* is requested and before the process RPC is issued.
C13_Original ==
    (cmd.op = "auto_publish" /\ config.ENABLE_WORK_CACHE)
        => \A i \in 1..Len(cmd.events) :
              cmd.events[i] # Event("request_work", cmd.block_hash)
                  => LET first == FirstEvent(cmd.events,
                                             Event("request_work", cmd.block_hash))
                     IN  first # 0 /\ first < i

-----------------------------------------------------------------------------
(* FrontiersDB as a data structure: insert, remove, remove_many and the     *)
(* cached work of a frontier                                                 *)

\* the error _could_insert_many returns, "none" when every entry passes
RECURSIVE could_insert_many_err(_, _, _)
could_insert_many_err(db, new, i) ==
    IF i > Len(new) THEN "none"
    ELSE IF ~could_insert(db, new[i]).ok THEN could_insert(db, new[i]).err
    ELSE could_insert_many_err(db, new, i + 1)

\* the error the loop of insert stops with, "none" when it runs to its end
RECURSIVE insert_loop_err(_, _, _)
insert_loop_err(db, new, i) ==
    IF i > Len(new) THEN "none"
    ELSE LET c == could_insert(db, new[i])
         IN  IF ~c.ok THEN c.err
             ELSE insert_loop_err(add_or_update(db, c.index, new[i]), new, i + 1)

\* the error FrontiersDB::insert returns
insert_err(db, new) ==
    IF ~could_insert_many(db, new) THEN could_insert_many_err(db, new, 1)
    ELSE insert_loop_err(db, new, 1)

\* the values the u128 variables take while one entry is checked and stored:
\* total after `total -= prev.block.balance`, and frontiers_balance after the
\* `-=` and the `+=` of _update or the `+=` of _add
entry_values(db, info) ==
    LET index == search_account(db.frontiers, info.block.account, 1)
        prev == IF index # 0 THEN db.frontiers[index].block.balance ELSE 0
    IN  {db.frontiers_balance - prev} \cup
        (IF could_insert(db, info).ok
         THEN {db.frontiers_balance - prev + info.block.balance} ELSE {})

\* the values the u128 variables take in the loop of insert
RECURSIVE insert_loop_values(_, _, _)
insert_loop_values(db, new, i) ==
    IF i > Len(new) THEN {}
    ELSE LET c == could_insert(db, new[i])
         IN  entry_values(db, new[i]) \cup
             (IF ~c.ok THEN {}
              ELSE insert_loop_values(add_or_update(db, c.index, new[i]), new, i + 1))

\* the values the u128 variables take in FrontiersDB::insert
insert_values(db, new) ==
    UNION {entry_values(db, new[i]) : i \in 1..Len(new)} \cup
    (IF could_insert_many(db, new) THEN insert_loop_values(db, new, 1) ELSE {})

\* the assertion of _add fails in the loop of insert: an entry is pushed for an
\* account that has one
RECURSIVE insert_loop_asserts(_, _, _)
insert_loop_asserts(db, new, i) ==
    IF i > Len(new) THEN FALSE
    ELSE LET c == could_insert(db, new[i])
         IN  IF ~c.ok THEN FALSE
             ELSE \/ c.index = 0 /\ account_frontier(db, new[i].block.account) # None
                  \/ insert_loop_asserts(add_or_update(db, c.index, new[i]), new, i + 1)

\* FrontiersDB::remove_many: collect() stops at the first account that fails
RECURSIVE remove_many(_, _, _)
remove_many(db, accounts, i) ==
    IF i > Len(accounts) THEN [ok |-> TRUE, db |-> db, values |-> {}]
    ELSE LET r == FrontiersDB_remove(db, accounts[i])
         IN  IF ~r.ok THEN [ok |-> FALSE, db |-> db, values |-> {}]
             ELSE LET rest == remove_many(r.db, accounts, i + 1)
                  IN  [rest EXCEPT !.values = @ \cup {r.db.frontiers_balance}]

\* what a call on the database returned, and whether its arithmetic stayed in
\* u128 and its assertions held
DbResult(op, err, values, asserted, dups) ==
    [op |-> op, err |-> err, values_ok |-> values \subseteq 0..U128_MAX,
     asserted |-> asserted, dups |-> dups]

DbOps == {"insert", "remove", "remove_many", "set_account_work", "add_work"}

\* an epoch block on top of a block
epoch_on(block) ==
    [block_type |-> "Epoch", account |-> block.account, previous |-> Hash(block),
     representative |-> block.representative, balance |-> block.balance,
     link |-> "epoch", work |-> ZERO_WORK]

\* frontiers a download or a publication can hand to insert
OrdinaryFrontiers ==
    {new_unopened(a) : a \in WalletAccounts} \cup
    {opened(a, b) : a \in WalletAccounts, b \in {1, U128_MAX}}

NewFrontierInfos ==
    OrdinaryFrontiers \cup
    {FrontierInfo_new(epoch_on(f.block), NoWork) : f \in OrdinaryFrontiers}

NewBatches ==
    {<<f>> : f \in NewFrontierInfos} \cup
    {<<f, g>> : f \in NewFrontierInfos, g \in NewFrontierInfos}

DbFrame == UNCHANGED <<config, wallet_db, receivable, cmd, inflight, published, ops>>

\* FrontiersDB::insert
DbInsert(new) ==
    /\ frontiers_db' = FrontiersDB_insert(frontiers_db, new)
    /\ last' = DbResult("insert", insert_err(frontiers_db, new),
                        insert_values(frontiers_db, new),
                        could_insert_many(frontiers_db, new)
                            /\ insert_loop_asserts(frontiers_db, new, 1),
                        Len(new) = 2 /\ new[1].block.account = new[2].block.account)
    /\ DbFrame

\* FrontiersDB::remove
DbRemove(account) ==
    LET r == FrontiersDB_remove(frontiers_db, account)
    IN  /\ frontiers_db' = r.db
        /\ last' = DbResult("remove", IF r.ok THEN "none" ELSE "AccountNotFound",
                            {r.db.frontiers_balance}, FALSE, FALSE)
        /\ DbFrame

\* FrontiersDB::remove_many
DbRemoveMany(accounts) ==
    LET r == remove_many(frontiers_db, accounts, 1)
    IN  /\ frontiers_db' = r.db
        /\ last' = DbResult("remove_many", IF r.ok THEN "none" ELSE "AccountNotFound",
                            r.values, FALSE, FALSE)
        /\ DbFrame

\* work values: work computed for the public key of an account, for the hash
\* of a receive block, for the hash of a block of another type, and work that
\* verifies for nothing
Works == {"wk_key", "wk_receive", "wk_other", "wk_bad"}

\* nanopyrs check_work: with difficulty 0 every work passes
check_work(work_hash, difficulty, work) ==
    \/ difficulty = 0
    \/ work = "wk_key" /\ Len(work_hash) = 1
    \/ work = "wk_receive" /\ Len(work_hash) = 6 /\ work_hash[1] = "Receive"
    \/ work = "wk_other" /\ Len(work_hash) = 6 /\ work_hash[1] # "Receive"

\* FrontierInfo::has_valid_work
has_valid_work(f, difficulty) ==
    /\ f.cached_work # NoWork
    /\ check_work(cache_work_hash(f), difficulty, f.cached_work)

\* FrontierInfo::cache_work: the work is stored, then verified, and cleared
\* when it does not verify
cache_work(f, difficulty, work) ==
    LET g == [f EXCEPT !.cached_work = work]
    IN  IF has_valid_work(g, difficulty) THEN g
        ELSE [g EXCEPT !.cached_work = NoWork]

\* search!(frontiers, Hash, value)
RECURSIVE search_hash(_, _, _)
search_hash(frontiers, hash, i) ==
    IF i > Len(frontiers) THEN 0
    ELSE IF Hash(frontiers[i].block) = hash THEN i
    ELSE search_hash(frontiers, hash, i + 1)

\* the database with the work cached on the frontier at the index, or the
\* error of a frontier that was not found
cache_work_at(db, difficulty, index, work) ==
    IF index = 0 THEN [ok |-> FALSE, db |-> db]
    ELSE [ok |-> TRUE,
          db |-> [db EXCEPT !.frontiers[index] =
                                cache_work(db.frontiers[index], difficulty, work)]]

\* FrontiersDB::set_account_work
set_account_work(db, difficulty, account, work) ==
    cache_work_at(db, difficulty, search_account(db.frontiers, account, 1), work)

\* FrontiersDB::add_work
add_work(db, difficulty, work_hash, work) ==
    cache_work_at(db, difficulty, search_hash(db.frontiers, work_hash, 1), work)

DbSetAccountWork(account, work) ==
    LET r == set_account_work(frontiers_db, config.WORK_DIFFICULTY, account, work)
    IN  /\ frontiers_db' = r.db
        /\ last' = DbResult("set_account_work",
                            IF r.ok THEN "none" ELSE "AccountNotFound", {}, FALSE, FALSE)
        /\ DbFrame

\* the work hashes a result of the work server can name
WorkHashes ==
    {<<a>> : a \in WalletAccounts} \cup {Hash(f.block) : f \in NewFrontierInfos}

DbAddWork(work_hash, work) ==
    LET r == add_work(frontiers_db, config.WORK_DIFFICULTY, work_hash, work)
    IN  /\ frontiers_db' = r.db
        /\ last' = DbResult("add_work",
                            IF r.ok THEN "none" ELSE "AccountNotFound", {}, FALSE, FALSE)
        /\ DbFrame

\* the difficulty of a configuration: a threshold that only matching work
\* passes (0, which every work passes, is CoreClientConfig::test_default)
Difficulties == {1}

FrontierInit ==
    /\ config \in [RPC_RECEIVE_TRANSACTIONS_BATCH_SIZE : {MaxBatch},
                   ENABLE_WORK_CACHE : {TRUE},
                   WORK_DIFFICULTY : Difficulties]
    /\ Loaded

FrontierNext ==
    \/ \E new \in NewBatches : DbInsert(new)
    \/ \E account \in WalletAccounts : DbRemove(account)
    \/ \E a, b \in WalletAccounts : DbRemoveMany(<<a, b>>)
    \/ \E account \in WalletAccounts, work \in Works : DbSetAccountWork(account, work)
    \/ \E work_hash \in WorkHashes, work \in Works : DbAddWork(work_hash, work)

FrontierSpec == FrontierInit /\ [][FrontierNext]_vars

-----------------------------------------------------------------------------
(* FrontiersDB: the sum of the balances, all-or-nothing insert, one entry   *)
(* per account, validity of the cached work                                  *)

\* C14: after every sequence of insert, remove and remove_many calls, failed
\* ones included, frontiers_balance is the sum of the balances of the stored
\* frontiers, the sum is at most u128::MAX, and every value the u128 variables
\* took in the last call was within u128.
C14_BalanceSum ==
    /\ frontiers_db.frontiers_balance = sum_balances(frontiers_db.frontiers, 1)
    /\ frontiers_db.frontiers_balance \in 0..U128_MAX
    /\ last.op \in DbOps => last.values_ok

C14_Witness ==
    /\ last.op = "insert" /\ last.err = "FrontierBalanceOverflow"
    /\ frontiers_db.frontiers_balance = U128_MAX
    /\ Len(frontiers_db.frontiers) = 2

\* C15, as the specification states it: insert of a batch is all-or-nothing:
\* when it returns an error, the database is exactly as it was before the call.
C15_Original ==
    [][\A new \in NewBatches :
        (DbInsert(new) /\ last'.err # "none") => frontiers_db' = frontiers_db]_vars

\* C16: after every sequence of insert and remove calls, batches that name an
\* account twice included, the database holds at most one entry per account,
\* and the assertion of _add never failed.
C16_OneEntryPerAccount ==
    /\ \A i, j \in 1..Len(frontiers_db.frontiers) :
          frontiers_db.frontiers[i].block.account = frontiers_db.frontiers[j].block.account
              => i = j
    /\ last.op \in DbOps => ~last.asserted

C16_Witness ==
    /\ last.op = "insert" /\ last.err = "none" /\ last.dups
    /\ Len(frontiers_db.frontiers) = 2
    /\ \E i \in 1..2 : is_epoch(frontiers_db.frontiers[i].block)

\* the hash work for a frontier is computed over: the public key of an account
\* without blocks, the hash of the frontier block otherwise
WorkHashOf(f) == IF IsSentinel(f) THEN <<f.block.account>> ELSE Hash(f.block)

\* every cached work verifies for its frontier
C17_CachedWorkValid ==
    \A i \in 1..Len(frontiers_db.frontiers) :
        LET f == frontiers_db.frontiers[i]
        IN  f.cached_work # NoWork
                => check_work(WorkHashOf(f), config.WORK_DIFFICULTY, f.cached_work)

\* set_account_work leaves the work on the frontier when it verifies for the
\* frontier, and no work otherwise
C17_SetWork ==
    \A account \in WalletAccounts, work \in Works :
        (DbSetAccountWork(account, work) /\ last'.err = "none") =>
            LET f == account_frontier(frontiers_db, account)
            IN  account_frontier(frontiers_db', account).cached_work =
                    IF check_work(WorkHashOf(f), config.WORK_DIFFICULTY, work)
                    THEN work ELSE NoWork

\* C17, as the specification states it: after set_work(a, w) the cached work of
\* the frontier is w when w verifies for the work hash of the frontier and is
\* cleared otherwise, and in every reachable state every cached work verifies
\* for its frontier.
C17_Original == []C17_CachedWorkValid /\ [][C17_SetWork]_vars

-----------------------------------------------------------------------------
(* WalletDB: the tables of normal, stealth (camo) and derived accounts, and *)
(* the commands that fill and empty them                                     *)

\* WalletSeed::get_key(index).to_account()
nano_account(index) == <<"nano", index>>
\* WalletSeed::get_camo_key(index, versions).to_camo_account(); the one
\* supported version is CamoVersion::One, so the index names the account
camo_account(index) == <<"camo", index>>
\* CamoAccount::signer_account of a stealth account of the wallet: the signer
\* key of a stealth key is the signer key of its index, so the notification
\* account of stealth account i is normal account i
notification_account(camo) == nano_account(camo[2])
\* WalletSeed::derive_key_from_secret(master, secret): the one-time account
derived_info(master, secret) ==
    [master_index |-> master.index, index |-> 0, secret |-> secret,
     account |-> <<"derived", master.index, secret>>]

\* wallet indices a command can name, and the ECDH secrets of payments
NanoIndices == 0..MaxAccountLimit
CamoIndices == 0..1
Secrets == {1}

\* GenericInfoDB::contains, DerivedAccountDB::contains
contains(info, account) == \E i \in 1..Len(info) : info[i].account = account

\* GenericInfoDB::force_insert, DerivedAccountDB::insert: the table and
\* whether it already held the account
force_insert(info, new) ==
    IF contains(info, new.account) THEN [ok |-> TRUE, present |-> TRUE, info |-> info]
    ELSE [ok |-> TRUE, present |-> FALSE, info |-> Append(info, new)]

\* an insert that does not look at the limit
insert_unlimited(limit, info, new) == force_insert(info, new)

\* GenericInfoDB::insert
GenericInfoDB_insert(limit, info, new) ==
    IF Len(info) >= limit
    THEN [ok |-> FALSE, err |-> "DBAccountLimitReached", info |-> info]
    ELSE force_insert(info, new)

\* DerivedAccountDB::insert_many
RECURSIVE insert_many(_, _, _)
insert_many(info, infos, i) ==
    IF i > Len(infos) THEN info
    ELSE insert_many(force_insert(info, infos[i]).info, infos, i + 1)

\* search_db!(mut db, Remove, account)
RECURSIVE position(_, _, _)
position(info, account, i) ==
    IF i > Len(info) THEN 0
    ELSE IF info[i].account = account THEN i
    ELSE position(info, account, i + 1)

table_remove(info, account) ==
    LET i == position(info, account, 1)
    IN  IF i = 0 THEN [ok |-> FALSE, info |-> info]
        ELSE [ok |-> TRUE, info |-> remove_at(info, i)]

\* a lookup that finds no derived account
get_info_from_nobody(derived_db, camo_db, master) == <<>>

\* DerivedAccountDB::get_info_from_master
get_info_from_master(derived_db, camo_db, master) ==
    LET i == position(camo_db, master, 1)
    IN  IF i = 0 THEN <<>>
        ELSE SelectSeq(derived_db, LAMBDA item : item.master_index = camo_db[i].index)

\* WalletDB::all_nano_accounts
all_nano_accounts(w) ==
    [i \in 1..Len(w.account_db) |-> w.account_db[i].account] \o
    [i \in 1..Len(w.camo_account_db) |->
        notification_account(w.camo_account_db[i].account)] \o
    [i \in 1..Len(w.derived_account_db) |-> w.derived_account_db[i].account]

\* FrontiersDB::filter_known_accounts
filter_known_accounts(db, accounts) ==
    SelectSeq(accounts, LAMBDA a : account_frontier(db, a) = None)

\* the frontiers a download returns for accounts that have no block yet
downloaded_frontiers(accounts) ==
    [i \in 1..Len(accounts) |-> new_unopened(accounts[i])]

\* the result of a wallet command: its error, and for an insert whether the
\* account was already in the table
WalletResult(op, err, present) ==
    [op |-> op, err |-> err, present |-> present]

\* the part of the state the wallet commands leave alone
WalletFrame == cmd' = Idle /\ UNCHANGED <<config, inflight, published, ops>>

\* download_unknown_frontiers and set_new_frontiers at the end of
\* AccountArgs::execute
unknown_frontiers(w, db) ==
    set_new_frontiers(db, downloaded_frontiers(filter_known_accounts(db, all_nano_accounts(w))))

\* AccountArgs::execute for a normal account
AddAccount(index, rpc_ok) ==
    LET new == [index |-> index, account |-> nano_account(index)]
        r == GenericInfoDB_insert(config.DB_NUMBER_OF_ACCOUNTS_LIMIT,
                                  wallet_db.account_db, new)
        w == [wallet_db EXCEPT !.account_db = r.info]
    IN  /\ cmd = Idle
        /\ WalletFrame
        /\ UNCHANGED receivable
        /\ wallet_db' = w
        /\ IF ~r.ok
           THEN /\ last' = WalletResult("account", r.err, FALSE)
                /\ UNCHANGED frontiers_db
           ELSE IF ~rpc_ok
           THEN /\ last' = WalletResult("account", "RpcCommandFailed", r.present)
                /\ UNCHANGED frontiers_db
           ELSE /\ last' = WalletResult("account", "none", r.present)
                /\ frontiers_db' = unknown_frontiers(w, frontiers_db)

\* AccountArgs::execute for a stealth account
AddCamoAccount(index, rpc_ok) ==
    LET new == [index |-> index, account |-> camo_account(index)]
        r == GenericInfoDB_insert(config.DB_NUMBER_OF_ACCOUNTS_LIMIT,
                                  wallet_db.camo_account_db, new)
        w == [wallet_db EXCEPT !.camo_account_db = r.info]
    IN  /\ cmd = Idle
        /\ WalletFrame
        /\ UNCHANGED receivable
        /\ wallet_db' = w
        /\ IF ~r.ok
           THEN /\ last' = WalletResult("camo", r.err, FALSE)
                /\ UNCHANGED frontiers_db
           ELSE IF ~rpc_ok
           THEN /\ last' = WalletResult("camo", "RpcCommandFailed", r.present)
                /\ UNCHANGED frontiers_db
           ELSE /\ last' = WalletResult("camo", "none", r.present)
                /\ frontiers_db' = unknown_frontiers(w, frontiers_db)

\* the payment a refresh finds pending for an account
pending_for(account) ==
    [recipient |-> account, block_hash |-> <<"pending", account>>, amount |-> 1]

\* the accounts of the given kinds among the known and the newly derived ones
accounts_of(kinds, accounts, infos) ==
    {accounts[i] : i \in {j \in 1..Len(accounts) : accounts[j][1] \in kinds}}
        \cup {infos[i].account : i \in {j \in 1..Len(infos) : "derived" \in kinds}}

\* RefreshArgs::execute: found are the stealth accounts a notification with
\* the given secret names, kinds the kinds of account that have a pending
\* payment, failed the download that fails
Refresh(found, secret, kinds, failed) ==
    LET accounts == all_nano_accounts(wallet_db)
        masters == SelectSeq(wallet_db.camo_account_db, LAMBDA m : m.index \in found)
        infos == [i \in 1..Len(masters) |-> derived_info(masters[i], secret)]
    IN  /\ cmd = Idle
        /\ WalletFrame
        /\ IF failed = "receivable"
           THEN /\ last' = WalletResult("refresh", "RpcCommandFailed", FALSE)
                /\ UNCHANGED <<wallet_db, frontiers_db, receivable>>
           ELSE /\ wallet_db' = [wallet_db EXCEPT !.derived_account_db =
                                    insert_many(@, infos, 1)]
                /\ receivable' = insert_receivable(
                       [h \in {k \in DOMAIN receivable :
                                 \A i \in 1..Len(accounts) :
                                    receivable[k].recipient # accounts[i]}
                          |-> receivable[h]],
                       {pending_for(a) : a \in accounts_of(kinds, accounts, infos)})
                /\ IF failed = "frontiers"
                   THEN /\ last' = WalletResult("refresh", "RpcCommandFailed", FALSE)
                        /\ UNCHANGED frontiers_db
                   ELSE /\ last' = WalletResult("refresh", "none", FALSE)
                        /\ frontiers_db' = set_new_frontiers(frontiers_db,
                                               downloaded_frontiers(accounts))

\* CoreClient::remove_account
core_remove_account(w, db, account) ==
    LET account_db == table_remove(w.account_db, account)
        derived_db == table_remove(w.derived_account_db, account)
        frontier_db == FrontiersDB_remove(db, account)
    IN  [wallet |-> [w EXCEPT !.account_db = account_db.info,
                              !.derived_account_db = derived_db.info],
         db |-> frontier_db.db,
         ok |-> (account_db.ok \/ derived_db.ok) /\ frontier_db.ok]

\* RemoveArgs::execute for a nano_ account: Client::remove_account
RemoveNanoAccount(account) ==
    LET r == core_remove_account(wallet_db, frontiers_db, account)
    IN  /\ cmd = Idle
        /\ WalletFrame
        /\ receivable' = remove_receivable(receivable, account)
        /\ wallet_db' = r.wallet
        /\ frontiers_db' = r.db
        /\ last' = WalletResult("remove",
                                IF r.ok THEN "none" ELSE "AccountNotFound", FALSE)

\* the loop of CoreClient::remove_camo_account over the derived accounts
RECURSIVE remove_derived(_, _, _, _)
remove_derived(w, db, derived, i) ==
    IF i > Len(derived) THEN [wallet |-> w, db |-> db]
    ELSE remove_derived(
            [w EXCEPT !.derived_account_db = table_remove(@, derived[i].account).info],
            FrontiersDB_remove(db, derived[i].account).db, derived, i + 1)

\* CoreClient::remove_camo_account
core_remove_camo_account(w, db, account) ==
    LET derived == get_info_from_master(w.derived_account_db, w.camo_account_db, account)
        d == remove_derived(w, db, derived, 1)
        camo_db == table_remove(d.wallet.camo_account_db, account)
        frontier_db == FrontiersDB_remove(d.db, notification_account(account))
    IN  IF ~camo_db.ok
        THEN [wallet |-> d.wallet, db |-> d.db, ok |-> FALSE]
        ELSE [wallet |-> [d.wallet EXCEPT !.camo_account_db = camo_db.info],
              db |-> frontier_db.db, ok |-> frontier_db.ok]

\* Client::remove_receivable for each of the accounts
RECURSIVE remove_receivables(_, _, _)
remove_receivables(map, infos, i) ==
    IF i > Len(infos) THEN map
    ELSE remove_receivables(remove_receivable(map, infos[i].account), infos, i + 1)

\* RemoveArgs::execute for a camo_ account: Client::remove_camo_account
RemoveCamoAccount(account) ==
    LET derived == get_info_from_master(wallet_db.derived_account_db,
                                        wallet_db.camo_account_db, account)
        r == core_remove_camo_account(wallet_db, frontiers_db, account)
    IN  /\ cmd = Idle
        /\ WalletFrame
        /\ receivable' = remove_receivable(remove_receivables(receivable, derived, 1),
                                           notification_account(account))
        /\ wallet_db' = r.wallet
        /\ frontiers_db' = r.db
        /\ last' = WalletResult("remove_camo",
                                IF r.ok THEN "none" ELSE "AccountNotFound", FALSE)

\* Client::new: a wallet without accounts
NewWallet ==
    /\ wallet_db = [account_db |-> <<>>, camo_account_db |-> <<>>,
                    derived_account_db |-> <<>>]
    /\ frontiers_db = [frontiers |-> <<>>, frontiers_balance |-> 0]
    /\ receivable = <<>>
    /\ cmd = Idle
    /\ last = NoResult
    /\ inflight = {}
    /\ published = {}
    /\ ops = 0

\* the download of a refresh that fails, if one does
Downloads == {"none", "receivable", "frontiers"}

\* the normal and derived accounts a remove command can name
NanoAccounts ==
    {nano_account(0)}
        \cup {derived_info([index |-> i], k).account : i \in CamoIndices, k \in Secrets}

\* the commands on a wallet that holds as many stealth accounts as it names
CamoInit ==
    /\ config \in [DB_NUMBER_OF_ACCOUNTS_LIMIT : {MaxAccountLimit}]
    /\ NewWallet

CamoNext ==
    \/ \E rpc_ok \in BOOLEAN : AddAccount(0, rpc_ok)
    \/ \E i \in CamoIndices, rpc_ok \in BOOLEAN : AddCamoAccount(i, rpc_ok)
    \/ \E found \in SUBSET CamoIndices, secret \in Secrets,
          kinds \in SUBSET {"nano", "derived"}, failed \in Downloads :
            Refresh(found, secret, kinds, failed)
    \/ \E account \in NanoAccounts : RemoveNanoAccount(account)
    \/ \E i \in CamoIndices : RemoveCamoAccount(camo_account(i))

CamoSpec == CamoInit /\ [][CamoNext]_vars

\* the derived accounts of a rescan that hold a pending payment; the others
\* have neither a balance nor a pending payment
worth_accounts(infos, worth) ==
    {infos[i].account : i \in {j \in 1..Len(infos) : infos[j].master_index \in worth}}

\* filter_worthless on the derived accounts of a rescan
filter_worthless_info(infos, worth) ==
    SelectSeq(infos, LAMBDA item : item.account \in worth_accounts(infos, worth))

\* Client::handle_rescan
handle_rescan(new_frontiers, derived, receivables) ==
    /\ frontiers_db' = set_new_frontiers(frontiers_db, new_frontiers)
    /\ wallet_db' = [wallet_db EXCEPT !.derived_account_db =
                         insert_many(@, derived, 1)]
    /\ receivable' = insert_receivable(receivable, receivables)

\* RescanArgs::execute for the stealth account of the index: head_given tells
\* whether the command names a head, found are the stealth accounts of the
\* wallet the notifications in the scanned history name, worth those whose
\* derived account has a pending payment
Rescan(index, head_given, found, secret, worth, filter, rpc_ok) ==
    LET account == notification_account(camo_account(index))
        masters == SelectSeq(wallet_db.camo_account_db, LAMBDA m : m.index \in found)
        infos == [i \in 1..Len(masters) |-> derived_info(masters[i], secret)]
        accounts == [i \in 1..Len(infos) |-> infos[i].account]
    IN  /\ cmd = Idle
        /\ WalletFrame
        /\ IF ~head_given /\ account_frontier(frontiers_db, account) = None
           THEN /\ last' = WalletResult("rescan", "none", FALSE)
                /\ UNCHANGED <<wallet_db, frontiers_db, receivable>>
           ELSE IF ~rpc_ok
           THEN /\ last' = WalletResult("rescan", "RpcCommandFailed", FALSE)
                /\ UNCHANGED <<wallet_db, frontiers_db, receivable>>
           ELSE /\ last' = WalletResult("rescan", "none", TRUE)
                /\ handle_rescan(downloaded_frontiers(accounts),
                                 IF filter THEN filter_worthless_info(infos, worth)
                                 ELSE infos,
                                 {pending_for(a) : a \in worth_accounts(infos, worth)})

\* the stealth account the commands of the rescanning wallet name: the one
\* whose notification account is the wallet's normal account
TrackIndices == {0}

\* the wallet commands with the rescan among them
TrackNext ==
    \/ \E rpc_ok \in BOOLEAN : AddAccount(0, rpc_ok)
    \/ \E i \in TrackIndices, rpc_ok \in BOOLEAN : AddCamoAccount(i, rpc_ok)
    \/ \E found \in SUBSET TrackIndices, secret \in Secrets,
          kinds \in SUBSET {"nano", "derived"}, failed \in Downloads :
            Refresh(found, secret, kinds, failed)
    \/ \E account \in NanoAccounts : RemoveNanoAccount(account)
    \/ \E i \in TrackIndices : RemoveCamoAccount(camo_account(i))
    \/ \E i \in TrackIndices, head_given \in BOOLEAN, found \in SUBSET TrackIndices,
          secret \in Secrets, filter \in BOOLEAN, rpc_ok \in BOOLEAN :
            \E worth \in SUBSET found :
                Rescan(i, head_given, found, secret, worth, filter, rpc_ok)

TrackSpec == CamoInit /\ [][TrackNext]_vars

\* FrontiersDB::accounts_balances with unwrap_or(0): the balance of each
\* account of the list, 0 for an account without frontier
accounts_balances(db, accounts) ==
    [i \in 1..Len(accounts) |->
        IF account_frontier(db, accounts[i]) = None THEN 0
        ELSE account_frontier(db, accounts[i]).block.balance]

\* Iterator::sum over the balances, before the width of u128 is applied
RECURSIVE sum_of(_, _)
sum_of(balances, i) ==
    IF i > Len(balances) THEN 0 ELSE balances[i] + sum_of(balances, i + 1)

\* CoreClient::wallet_balance: a sum that does not fit u128 panics in a build
\* with overflow checks and wraps in a build without
wallet_balance(w, db, checked) ==
    LET total == sum_of(accounts_balances(db, all_nano_accounts(w)), 1)
    IN  IF total <= U128_MAX THEN [outcome |-> "value", value |-> total]
        ELSE IF checked THEN [outcome |-> "panic", value |-> 0]
        ELSE [outcome |-> "wrapped", value |-> total % (U128_MAX + 1)]

\* the total of the balance command: wallet_balance on the wallet as it is
WalletBalance(checked) ==
    /\ cmd = Idle
    /\ last = NoResult
    /\ WalletFrame
    /\ UNCHANGED <<wallet_db, frontiers_db, receivable>>
    /\ last' = [op |-> "wallet_balance", err |-> "none",
                result |-> wallet_balance(wallet_db, frontiers_db, checked)]

\* the accounts of the wallets the balance is taken of
BalanceAccounts == {nano_account(0), nano_account(1), derived_info([index |-> 0], 1).account}

\* the frontier the node reports for an account of the given balance
funded(account, balance) ==
    IF balance = 0 THEN new_unopened(account) ELSE opened(account, balance)

\* the frontiers of the given accounts for the balances of a ledger
RECURSIVE frontiers_of(_, _, _)
frontiers_of(accounts, ledger, i) ==
    IF i > Len(accounts) THEN <<>>
    ELSE IF \E j \in 1..(i - 1) : accounts[j] = accounts[i]
    THEN frontiers_of(accounts, ledger, i + 1)
    ELSE <<funded(accounts[i], ledger[accounts[i]])>> \o frontiers_of(accounts, ledger, i + 1)

\* wallets with their accounts added and their frontiers downloaded: normal
\* accounts 0 and 1, stealth account 0 and a derived account of it, with
\* balances the FrontierDB accepts
BalanceInit ==
    /\ config \in [DB_NUMBER_OF_ACCOUNTS_LIMIT : {MaxAccountLimit}]
    /\ \E normal \in {<<>>, <<0>>, <<1>>, <<0, 1>>}, camo \in {<<>>, <<0>>},
          derived \in {<<>>, <<1>>} :
         /\ derived # <<>> => camo # <<>>
         /\ wallet_db =
              [account_db |-> [i \in 1..Len(normal) |->
                                  [index |-> normal[i], account |-> nano_account(normal[i])]],
               camo_account_db |-> [i \in 1..Len(camo) |->
                                  [index |-> camo[i], account |-> camo_account(camo[i])]],
               derived_account_db |-> [i \in 1..Len(derived) |->
                                  derived_info([index |-> 0], derived[i])]]
    /\ \E ledger \in [BalanceAccounts -> 0..U128_MAX] :
         LET frontiers == frontiers_of(all_nano_accounts(wallet_db), ledger, 1)
         IN  /\ sum_balances(frontiers, 1) <= U128_MAX
             /\ frontiers_db = [frontiers |-> frontiers,
                                frontiers_balance |-> sum_balances(frontiers, 1)]
    /\ receivable = <<>>
    /\ cmd = Idle
    /\ last = NoResult
    /\ inflight = {}
    /\ published = {}
    /\ ops = 0

BalanceNext == \E checked \in BOOLEAN : WalletBalance(checked)

BalanceSpec == BalanceInit /\ [][BalanceNext]_vars

-----------------------------------------------------------------------------
(* The account tables as data structures: any sequence of inserts and removes *)

\* the secrets of the derived accounts put into the derived table
TableSecrets == {1, 2}

\* the part of the state the table operations leave alone
TableFrame == WalletFrame /\ UNCHANGED <<frontiers_db, receivable>>

\* GenericInfoDB::insert on the table of normal accounts
InsertAccount(index) ==
    LET r == GenericInfoDB_insert(config.DB_NUMBER_OF_ACCOUNTS_LIMIT, wallet_db.account_db,
                                  [index |-> index, account |-> nano_account(index)])
    IN  /\ TableFrame
        /\ wallet_db' = [wallet_db EXCEPT !.account_db = r.info]
        /\ last' = WalletResult("insert", IF r.ok THEN "none" ELSE r.err,
                                r.ok /\ r.present)

\* GenericInfoDB::insert on the table of stealth accounts
InsertCamoAccount(index) ==
    LET r == GenericInfoDB_insert(config.DB_NUMBER_OF_ACCOUNTS_LIMIT,
                                  wallet_db.camo_account_db,
                                  [index |-> index, account |-> camo_account(index)])
    IN  /\ TableFrame
        /\ wallet_db' = [wallet_db EXCEPT !.camo_account_db = r.info]
        /\ last' = WalletResult("insert_camo", IF r.ok THEN "none" ELSE r.err,
                                r.ok /\ r.present)

\* DerivedAccountDB::insert
InsertDerived(master_index, secret) ==
    LET r == force_insert(wallet_db.derived_account_db,
                          derived_info([index |-> master_index], secret))
    IN  /\ TableFrame
        /\ wallet_db' = [wallet_db EXCEPT !.derived_account_db = r.info]
        /\ last' = WalletResult("insert_derived", "none", r.present)

\* GenericInfoDB::remove and DerivedAccountDB::remove
TableRemove(table, account) ==
    LET r == table_remove(wallet_db[table], account)
    IN  /\ TableFrame
        /\ wallet_db' = [wallet_db EXCEPT ![table] = r.info]
        /\ last' = WalletResult("table_remove",
                                IF r.ok THEN "none" ELSE "AccountNotFound", FALSE)

WalletInit ==
    /\ config \in [DB_NUMBER_OF_ACCOUNTS_LIMIT : 1..MaxAccountLimit]
    /\ NewWallet

WalletNext ==
    \/ \E i \in NanoIndices : InsertAccount(i)
    \/ \E i \in CamoIndices : InsertCamoAccount(i)
    \/ \E i \in CamoIndices, k \in TableSecrets : InsertDerived(i, k)
    \/ \E i \in NanoIndices : TableRemove("account_db", nano_account(i))
    \/ \E i \in CamoIndices : TableRemove("camo_account_db", camo_account(i))
    \/ \E i \in CamoIndices, k \in TableSecrets :
         TableRemove("derived_account_db", derived_info([index |-> i], k).account)

WalletSpec == WalletInit /\ [][WalletNext]_vars

-----------------------------------------------------------------------------
(* Claims on the account tables *)

\* C18: inserting an account that is already in a table reports "already
\* present" and leaves the table as it is, whatever the size of the table.
C18_Original ==
    [][/\ \A i \in NanoIndices :
            (InsertAccount(i) /\ contains(wallet_db.account_db, nano_account(i)))
                => (last'.err = "none" /\ last'.present /\ wallet_db' = wallet_db)
       /\ \A i \in CamoIndices :
            (InsertCamoAccount(i) /\ contains(wallet_db.camo_account_db, camo_account(i)))
                => (last'.err = "none" /\ last'.present /\ wallet_db' = wallet_db)]_vars

\* the tables of normal and of stealth accounts hold at most the limit
TablesCapped ==
    /\ Len(wallet_db.account_db) <= config.DB_NUMBER_OF_ACCOUNTS_LIMIT
    /\ Len(wallet_db.camo_account_db) <= config.DB_NUMBER_OF_ACCOUNTS_LIMIT

\* a new account is refused by a full table, and never by the derived table
FullTableRejects ==
    /\ \A i \in NanoIndices :
         (/\ InsertAccount(i)
          /\ ~contains(wallet_db.account_db, nano_account(i))
          /\ Len(wallet_db.account_db) = config.DB_NUMBER_OF_ACCOUNTS_LIMIT)
            => (last'.err = "DBAccountLimitReached" /\ wallet_db' = wallet_db)
    /\ \A i \in CamoIndices :
         (/\ InsertCamoAccount(i)
          /\ ~contains(wallet_db.camo_account_db, camo_account(i))
          /\ Len(wallet_db.camo_account_db) = config.DB_NUMBER_OF_ACCOUNTS_LIMIT)
            => (last'.err = "DBAccountLimitReached" /\ wallet_db' = wallet_db)
    /\ \A i \in CamoIndices, k \in TableSecrets :
         InsertDerived(i, k)
            => /\ last'.err = "none"
               /\ contains(wallet_db'.derived_account_db,
                           derived_info([index |-> i], k).account)

\* C19: after any sequence of inserts and removes the tables of normal and of
\* stealth accounts hold at most DB_NUMBER_OF_ACCOUNTS_LIMIT entries; a new
\* account is refused by a full table with DBAccountLimitReached and the table
\* stays as it is; the derived table takes every insert.
C19_AccountLimit == []TablesCapped /\ [][FullTableRejects]_vars

\* a full table of normal accounts refused an account, the table of stealth
\* accounts is full too, and the derived table holds more than the limit
C19_Witness ==
    /\ last.op = "insert"
    /\ last.err = "DBAccountLimitReached"
    /\ Len(wallet_db.account_db) = config.DB_NUMBER_OF_ACCOUNTS_LIMIT
    /\ Len(wallet_db.camo_account_db) = config.DB_NUMBER_OF_ACCOUNTS_LIMIT
    /\ Len(wallet_db.derived_account_db) > config.DB_NUMBER_OF_ACCOUNTS_LIMIT
    /\ config.DB_NUMBER_OF_ACCOUNTS_LIMIT = MaxAccountLimit

\* some pending payment names the account as its recipient
has_receivable(map, account) == \E h \in DOMAIN map : map[h].recipient = account

\* nothing of the account is left in the frontiers and the pending payments
Forgotten(db, map, account) ==
    account_frontier(db, account) = None /\ ~has_receivable(map, account)

\* what a successful removal of the stealth account of the index leaves
Cascaded(index) ==
    /\ ~contains(wallet_db'.camo_account_db, camo_account(index))
    /\ Forgotten(frontiers_db', receivable', notification_account(camo_account(index)))
    /\ \A k \in Secrets :
         LET d == derived_info([index |-> index], k).account
         IN  /\ ~contains(wallet_db'.derived_account_db, d)
             /\ Forgotten(frontiers_db', receivable', d)
    /\ wallet_db'.derived_account_db =
         SelectSeq(wallet_db.derived_account_db, LAMBDA item : item.master_index # index)

-----------------------------------------------------------------------------
(* RpcManager: the pool of nodes, its retries and its bans *)

\* the URLs of the configured nodes
Urls == <<"n1", "n2", "n3">>

\* RpcError: invalid data, or any other failure
RpcErrors == {"InvalidData", "Other"}

\* readings of the clock (get_current_time)
Times == {1, 2}

\* ban times a configuration can hold
BanTimes == {1, U64_MAX}

\* Rpc::is_banned
is_banned(rpc, current_time) == rpc.banned_until > current_time

\* a key that does not tell banned nodes from the others
ban_key_none(rpc, current_time) == 0

\* the key RpcManager::get_usable_rpcs sorts by
ban_key(rpc, current_time) ==
    IF is_banned(rpc, current_time) THEN rpc.banned_until ELSE 0

\* slice::sort_by_key, a stable sort: insertion of s[i] behind the elements
\* of the sorted prefix whose key is not greater
RECURSIVE insert_sorted(_, _, _)
insert_sorted(sorted, rpc, current_time) ==
    IF sorted = <<>> THEN <<rpc>>
    ELSE IF ban_key(sorted[Len(sorted)], current_time) <= ban_key(rpc, current_time)
    THEN Append(sorted, rpc)
    ELSE Append(insert_sorted(SubSeq(sorted, 1, Len(sorted) - 1), rpc, current_time),
                sorted[Len(sorted)])

RECURSIVE sort_by_key(_, _, _)
sort_by_key(rpcs, current_time, i) ==
    IF i = 0 THEN <<>>
    ELSE insert_sorted(sort_by_key(rpcs, current_time, i - 1), rpcs[i], current_time)

\* RpcManager::get_usable_rpcs; shuffled is the outcome of rpcs.shuffle
get_usable_rpcs(c, shuffled, current_time) ==
    LET sorted == sort_by_key(shuffled, current_time, Len(shuffled))
        supported == SelectSeq(sorted, LAMBDA rpc : rpc.supports)
    IN  IF c.RPC_USE_BANNED_NODES_AS_BACKUP THEN supported
        ELSE SelectSeq(supported, LAMBDA rpc : ~is_banned(rpc, current_time))

\* the outcomes of rpcs.shuffle
Shuffles(rpcs) == {[i \in 1..Len(rpcs) |-> rpcs[o[i]]] : o \in Orders(1..Len(rpcs))}

\* get_ban_expiration: current_time.wrapping_add(ban_seconds)
get_ban_expiration(current_time, ban_seconds) ==
    (current_time + ban_seconds) % (U64_MAX + 1)

\* Rpc::ban_for_seconds
ban_for_seconds(rpc, current_time, ban_time) ==
    [rpc EXCEPT !.banned_until = Max(@, get_ban_expiration(current_time, ban_time))]

\* the ban time Rpc::handle_err chooses
ban_time_of(c, err) ==
    IF err = "InvalidData" THEN c.RPC_INVALID_DATA_BAN_TIME ELSE c.RPC_FAILURE_BAN_TIME

\* Rpc::handle_err
handle_err(rpc, c, err, current_time) ==
    ban_for_seconds(rpc, current_time, ban_time_of(c, err))

\* the index of the first configured node with the URL
RECURSIVE find_url(_, _, _)
find_url(rpcs, url, i) ==
    IF i > Len(rpcs) THEN 0
    ELSE IF rpcs[i].url = url THEN i
    ELSE find_url(rpcs, url, i + 1)

\* RpcManager::handle_failures: the nodes after the failures from i on
RECURSIVE handle_failures(_, _, _, _, _)
handle_failures(rpcs, c, failures, i, current_time) ==
    IF i > Len(failures) THEN rpcs
    ELSE LET n == find_url(rpcs, failures[i].url, 1)
         IN  handle_failures([rpcs EXCEPT ![n] = handle_err(@, c, failures[i].err, current_time)],
                             c, failures, i + 1, current_time)

\* the result of a pool call: the failures it returns, and for the record
\* every failed attempt and the number of passes it made
RpcReturn(err, failures, c) ==
    [op |-> "rpc", err |-> err, failures |-> failures, attempts |-> c.attempts,
     offered |-> c.offered, passes |-> c.pass]

\* the part of the state the pool leaves alone
RpcFrame == UNCHANGED <<wallet_db, frontiers_db, receivable, inflight, published, ops>>

\* a pass of the retry loop begins: the candidates are computed anew; offered
\* records the URLs of the candidates of all passes
begin_pass(c, shuffled, current_time) ==
    LET candidates == get_usable_rpcs(config, shuffled, current_time)
    IN  [op |-> "rpc", pass |-> c.pass + 1, n |-> 1, failures |-> <<>>,
         attempts |-> c.attempts,
         offered |-> c.offered \o [i \in 1..Len(candidates) |-> candidates[i].url],
         candidates |-> candidates]

\* a retry loop that makes one pass more than the limit
exhausted_late(passes, limit) == passes > limit

\* the range 0..RPC_RETRY_LIMIT of the retry loop is used up
exhausted(passes, limit) == passes >= limit

\* the call before its first pass
NoPass == [attempts |-> <<>>, offered |-> <<>>, pass |-> 0]

\* a wrapped RPC method is called
RpcCall(shuffled, current_time) ==
    /\ cmd = Idle
    /\ RpcFrame
    /\ UNCHANGED config
    /\ IF exhausted(0, config.RPC_RETRY_LIMIT)
       THEN /\ cmd' = Idle
            /\ last' = RpcReturn("RpcCommandFailed", <<>>, NoPass)
       ELSE /\ cmd' = begin_pass(NoPass, shuffled, current_time)
            /\ last' = NoResult

\* the next candidate answers
RpcResponse(ok, err) ==
    /\ cmd.op = "rpc"
    /\ cmd.n <= Len(cmd.candidates)
    /\ RpcFrame
    /\ UNCHANGED config
    /\ IF ok
       THEN /\ cmd' = Idle
            /\ last' = RpcReturn("none", cmd.failures, cmd)
       ELSE LET failure == [err |-> err, url |-> cmd.candidates[cmd.n].url]
            IN  /\ cmd' = [cmd EXCEPT !.n = @ + 1,
                                      !.failures = Append(@, failure),
                                      !.attempts = Append(@, failure)]
                /\ UNCHANGED last

\* every candidate of the pass has failed
RpcPassFailed(shuffled, current_time) ==
    /\ cmd.op = "rpc"
    /\ cmd.n > Len(cmd.candidates)
    /\ RpcFrame
    /\ UNCHANGED config
    /\ IF exhausted(cmd.pass, config.RPC_RETRY_LIMIT)
       THEN /\ cmd' = Idle
            /\ last' = RpcReturn("RpcCommandFailed", <<>>, cmd)
       ELSE /\ cmd' = begin_pass(cmd, shuffled, current_time)
            /\ UNCHANGED last

\* a configuration of the pool whose nodes have the given bans
RpcConfigs(bans) ==
    UNION {[RPCS : {[i \in 1..Len(Urls) |->
                       [url |-> Urls[i], banned_until |-> banned[i],
                        supports |-> supports[i]]]},
            RPC_RETRY_LIMIT : 0..MaxRetry,
            RPC_USE_BANNED_NODES_AS_BACKUP : BOOLEAN,
            RPC_INVALID_DATA_BAN_TIME : BanTimes,
            RPC_FAILURE_BAN_TIME : {1}] :
           supports \in [1..Len(Urls) -> BOOLEAN], banned \in [1..Len(Urls) -> bans]}

\* the error of a node that fails during a pool call
CallErrors == {"Other"}

\* a wallet whose nodes are banned for good or not at all
RpcInit ==
    /\ config \in RpcConfigs({0, U64_MAX})
    /\ NewWallet

RpcNext ==
    \/ \E t \in Times : \E shuffled \in Shuffles(config.RPCS) : RpcCall(shuffled, t)
    \/ \E ok \in BOOLEAN, err \in CallErrors : RpcResponse(ok, err)
    \/ \E t \in Times : \E shuffled \in Shuffles(config.RPCS) : RpcPassFailed(shuffled, t)

RpcSpec == RpcInit /\ [][RpcNext]_vars

\* a node answers every request, with a result or with an error, and the
\* retry loop goes on when a pass is over
RpcStep ==
    \/ \E ok \in BOOLEAN, err \in CallErrors : RpcResponse(ok, err)
    \/ \E t \in Times : \E shuffled \in Shuffles(config.RPCS) : RpcPassFailed(shuffled, t)

RpcFairSpec == RpcSpec /\ WF_vars(RpcStep)

\* RpcManager::get_usable_rpcs, called on its own
UsableRpcs(shuffled, current_time) ==
    /\ cmd = Idle
    /\ RpcFrame
    /\ UNCHANGED <<config, cmd>>
    /\ last' = [op |-> "get_usable_rpcs", err |-> "none", time |-> current_time,
                rpcs |-> get_usable_rpcs(config, shuffled, current_time)]

\* the failures a successful call can return
FailureLists ==
    LET F == [err : RpcErrors, url : Range(Urls)]
    IN  {<<f>> : f \in F} \cup {<<f, g>> : f \in F, g \in F}

\* CoreClient::handle_rpc_success: the failures of a call ban their nodes
HandleFailures(failures, current_time) ==
    /\ cmd = Idle
    /\ RpcFrame
    /\ UNCHANGED cmd
    /\ config' = [config EXCEPT !.RPCS =
                     handle_failures(@, config, failures, 1, current_time)]
    /\ last' = [op |-> "handle_failures", err |-> "none", time |-> current_time]

\* a new wallet: no node is banned
BanInit ==
    /\ config \in RpcConfigs({0})
    /\ NewWallet

BanNext ==
    \/ \E t \in Times : \E shuffled \in Shuffles(config.RPCS) : UsableRpcs(shuffled, t)
    \/ \E failures \in FailureLists, t \in Times : HandleFailures(failures, t)

BanSpec == BanInit /\ [][BanNext]_vars

-----------------------------------------------------------------------------
(* Claims on the RPC pool *)

\* C21: when a pool call succeeds, the failures it returns are the failed
\* attempts of the call, of all its passes, in the order they were made.
C21_Original == (last.op = "rpc" /\ last.err = "none") => last.failures = last.attempts

\* the retry loop never makes more passes than RPC_RETRY_LIMIT; a call fails
\* only when all its passes are made and every candidate of every pass has
\* failed, and succeeds only when some candidate did not fail
PoolCallBounded ==
    /\ cmd.op = "rpc" => cmd.pass <= config.RPC_RETRY_LIMIT
    /\ last.op = "rpc" =>
         /\ last.passes <= config.RPC_RETRY_LIMIT
         /\ last.err \in {"none", "RpcCommandFailed"}
         /\ last.err = "RpcCommandFailed" <=>
              /\ last.passes = config.RPC_RETRY_LIMIT
              /\ last.offered = [i \in 1..Len(last.attempts) |-> last.attempts[i].url]
         /\ last.err = "none" <=> Len(last.attempts) < Len(last.offered)

\* one successful attempt ends the call with success
SuccessEnds ==
    \A err \in CallErrors :
        RpcResponse(TRUE, err) => (cmd' = Idle /\ last'.err = "none")

\* C22: every pool call ends after at most RPC_RETRY_LIMIT passes over the
\* candidates; it returns RpcCommandFailed exactly when every attempt on every
\* candidate of every pass has failed (also with no candidate, or a retry
\* limit of 0), and one successful attempt ends it with success.
C22_PoolCallEnds ==
    /\ []PoolCallBounded
    /\ [][SuccessEnds]_vars
    /\ (cmd.op = "rpc" ~> cmd = Idle)

\* a call has failed after all its passes, in each of which a node failed
C22_Witness ==
    /\ last.op = "rpc"
    /\ last.err = "RpcCommandFailed"
    /\ last.passes = MaxRetry
    /\ Len(last.attempts) >= MaxRetry

\* C23: the candidates of a command are the configured nodes that support it,
\* without the banned ones when RPC_USE_BANNED_NODES_AS_BACKUP is false, and
\* every node that is not banned stands before every banned one.
C23_Candidates ==
    last.op = "get_usable_rpcs" =>
        LET rpcs == last.rpcs
            wanted == {i \in 1..Len(config.RPCS) :
                         /\ config.RPCS[i].supports
                         /\ config.RPC_USE_BANNED_NODES_AS_BACKUP
                              \/ ~is_banned(config.RPCS[i], last.time)}
        IN  /\ Range(rpcs) = {config.RPCS[i] : i \in wanted}
            /\ Len(rpcs) = Cardinality(wanted)
            /\ \A i, j \in 1..Len(rpcs) :
                 (i < j /\ is_banned(rpcs[i], last.time)) => is_banned(rpcs[j], last.time)

\* all three nodes are candidates, shuffled, with the one banned node last
C23_Witness ==
    /\ last.op = "get_usable_rpcs"
    /\ Len(last.rpcs) = 3
    /\ last.rpcs[1].url = "n3"
    /\ ~is_banned(last.rpcs[2], last.time)
    /\ is_banned(last.rpcs[3], last.time)
    /\ last.rpcs[3].url = "n1"

\* C24: each failure given to handle_failures leaves banned_until of its node
\* at now + BAN_TIME or later (RPC_INVALID_DATA_BAN_TIME for invalid data,
\* RPC_FAILURE_BAN_TIME otherwise), and no banned_until ever gets lower.
C24_Original ==
    [][\A failures \in FailureLists, t \in Times :
         HandleFailures(failures, t) =>
            /\ \A i \in 1..Len(failures) :
                 config'.RPCS[find_url(config.RPCS, failures[i].url, 1)].banned_until
                    >= t + ban_time_of(config, failures[i].err)
            /\ \A n \in 1..Len(config.RPCS) :
                 config'.RPCS[n].banned_until >= config.RPCS[n].banned_until]_vars

-----------------------------------------------------------------------------
(* WorkManager: the proof-of-work jobs of the wallet *)

\* the work hashes jobs are requested for, in the order of the frontiers
JobHashes == <<"w1", "w2", "w3", "w4">>

\* the number of requests update_work_cache stops at
MAX_PREFETCHES == 2

\* a request that starts a job whether or not the hash has one
request_work_always(handles, work_hash, jobs) ==
    [handles |-> [h \in DOMAIN handles \cup {work_hash} |->
                     IF h = work_hash THEN [job |-> jobs + 1, finished |-> FALSE]
                     ELSE handles[h]],
     jobs |-> jobs + 1]

\* WorkManager::request_work: the handles and the number of jobs started
WorkManager_request_work(handles, work_hash, jobs) ==
    IF work_hash \in DOMAIN handles THEN [handles |-> handles, jobs |-> jobs]
    ELSE request_work_always(handles, work_hash, jobs)

\* the handles WorkManager::get_results removes
finished_handles(handles) == {h \in DOMAIN handles : handles[h].finished}

\* a poll that leaves the finished handles in the map
remove_handles_none(handles, hashes) == handles

\* HashMap::remove for each of the hashes
remove_handles(handles, hashes) == [h \in DOMAIN handles \ hashes |-> handles[h]]

\* the results handed to the caller are counted by job
deliver(delivered, jobs, by) ==
    [j \in DOMAIN delivered |->
        IF j \in jobs THEN [delivered[j] EXCEPT ![by] = @ + 1] ELSE delivered[j]]

\* the part of the state the work manager leaves alone
WorkFrame == UNCHANGED <<config, wallet_db, frontiers_db, receivable>>

\* WorkManager::request_work
RequestWork(work_hash) ==
    LET r == WorkManager_request_work(inflight, work_hash, ops)
    IN  /\ cmd = Idle
        /\ r.jobs <= MaxJobs
        /\ WorkFrame
        /\ UNCHANGED <<cmd, published>>
        /\ inflight' = r.handles
        /\ ops' = r.jobs
        /\ last' = [op |-> "request_work", err |-> "none",
                    started |-> r.jobs - ops, known |-> work_hash \in DOMAIN inflight]

\* the thread of a job ends
JobFinishes(work_hash) ==
    /\ work_hash \in DOMAIN inflight
    /\ ~inflight[work_hash].finished
    /\ WorkFrame
    /\ UNCHANGED <<cmd, last, published, ops>>
    /\ inflight' = [inflight EXCEPT ![work_hash].finished = TRUE]

\* WorkManager::wait_on up to its loop: the handle is taken out of the map,
\* or the expect panics
WaitOn(work_hash) ==
    /\ cmd = Idle
    /\ WorkFrame
    /\ UNCHANGED <<published, ops>>
    /\ IF work_hash \in DOMAIN inflight
       THEN /\ inflight' = remove_handles(inflight, {work_hash})
            /\ cmd' = [op |-> "wait_on", hash |-> work_hash, handle |-> inflight[work_hash]]
            /\ last' = NoResult
       ELSE /\ cmd' = Panicked
            /\ last' = [op |-> "wait_on", err |-> "panic", hash |-> work_hash]
            /\ UNCHANGED inflight

\* the thread of the job that is waited on ends
WaitedJobFinishes ==
    /\ cmd.op = "wait_on"
    /\ ~cmd.handle.finished
    /\ WorkFrame
    /\ UNCHANGED <<inflight, last, published, ops>>
    /\ cmd' = [cmd EXCEPT !.handle.finished = TRUE]

\* the loop of WorkManager::wait_on sees the finished job and returns
WaitReturn ==
    /\ cmd.op = "wait_on"
    /\ cmd.handle.finished
    /\ WorkFrame
    /\ UNCHANGED <<inflight, ops>>
    /\ cmd' = Idle
    /\ published' = deliver(published, {cmd.handle.job}, "wait")
    /\ last' = [op |-> "wait_on", err |-> "none", hash |-> cmd.hash]

\* WorkManager::get_results
GetResults ==
    LET done == finished_handles(inflight)
    IN  /\ cmd = Idle
        /\ WorkFrame
        /\ UNCHANGED <<cmd, ops>>
        /\ inflight' = remove_handles(inflight, done)
        /\ published' = deliver(published, {inflight[h].job : h \in done}, "poll")
        /\ last' = [op |-> "get_results", err |-> "none", hashes |-> done]

\* the loop of Client::update_work_cache over needs_work()
RECURSIVE request_needed(_, _, _, _)
request_needed(handles, needs, i, jobs) ==
    IF i > Len(needs) \/ Cardinality(DOMAIN handles) >= MAX_PREFETCHES
    THEN [handles |-> handles, jobs |-> jobs]
    ELSE LET r == WorkManager_request_work(handles, needs[i], jobs)
         IN  request_needed(r.handles, needs, i + 1, r.jobs)

\* the work hashes of the frontiers without cached work (needs_work)
NeedsWork ==
    {SelectSeq(JobHashes, LAMBDA h : h \in S) : S \in SUBSET Range(JobHashes)}

\* Client::update_work_cache: the finished jobs are collected, then work is
\* requested for the frontiers that need it
UpdateWorkCache(needs) ==
    LET done == finished_handles(inflight)
        r == request_needed(remove_handles(inflight, done), needs, 1, ops)
    IN  /\ cmd = Idle
        /\ r.jobs <= MaxJobs
        /\ WorkFrame
        /\ UNCHANGED cmd
        /\ inflight' = r.handles
        /\ ops' = r.jobs
        /\ published' = deliver(published, {inflight[h].job : h \in done}, "poll")
        /\ last' = [op |-> "update_work_cache", err |-> "none", hashes |-> done]

\* send_camo with ENABLE_WORK_CACHE: work is requested for the blocks that
\* follow the notification block and the send block
SendCamoRequests(notification_hash, send_hash) ==
    LET n == WorkManager_request_work(inflight, notification_hash, ops)
        r == WorkManager_request_work(n.handles, send_hash, n.jobs)
    IN  /\ cmd = Idle
        /\ notification_hash # send_hash
        /\ r.jobs <= MaxJobs
        /\ WorkFrame
        /\ UNCHANGED <<cmd, published>>
        /\ inflight' = r.handles
        /\ ops' = r.jobs
        /\ last' = [op |-> "send_camo", err |-> "none", started |-> r.jobs - ops]

\* WorkManager::default: no handle, no job started, nothing delivered
WorkInit ==
    /\ config = [ENABLE_WORK_CACHE |-> TRUE]
    /\ wallet_db = [account_db |-> <<>>, camo_account_db |-> <<>>,
                    derived_account_db |-> <<>>]
    /\ frontiers_db = [frontiers |-> <<>>, frontiers_balance |-> 0]
    /\ receivable = <<>>
    /\ cmd = Idle
    /\ last = NoResult
    /\ inflight = <<>>
    /\ published = [j \in 1..MaxJobs |-> [wait |-> 0, poll |-> 0]]
    /\ ops = 0

WorkNext ==
    \/ \E h \in Range(JobHashes) : RequestWork(h)
    \/ \E h \in Range(JobHashes) : JobFinishes(h)
    \/ \E h \in Range(JobHashes) : WaitOn(h)
    \/ WaitedJobFinishes
    \/ WaitReturn
    \/ GetResults
    \/ \E needs \in NeedsWork : UpdateWorkCache(needs)
    \/ \E n, h \in Range(JobHashes) : SendCamoRequests(n, h)

WorkSpec == WorkInit /\ [][WorkNext]_vars

-----------------------------------------------------------------------------
(* WorkClient and WorkServer: the work jobs behind two channels *)

\* the work hashes the client asks the server for
ServerHashes == {"w1", "w2"}

\* the remove! macro: the first item equal to value leaves the vector
RECURSIVE vec_remove(_, _)
vec_remove(vec, value) ==
    IF vec = <<>> THEN <<>>
    ELSE IF Head(vec) = value THEN Tail(vec)
    ELSE <<Head(vec)>> \o vec_remove(Tail(vec), value)

\* WorkClient::ack_request and WorkServer::ack_request on the vector of
\* requests: the hash moves to the end
ack_request(requests, hash) == Append(vec_remove(requests, hash), hash)

\* WorkClient::ack_result
ack_result(client, hash) ==
    [requests |-> vec_remove(client.requests, hash),
     results |-> Append(client.results, hash)]

\* WorkClient::update: every result in the channel is acknowledged
RECURSIVE WorkClient_update(_, _)
WorkClient_update(client, channel) ==
    IF channel = <<>> THEN client
    ELSE WorkClient_update(ack_result(client, Head(channel)), Tail(channel))

\* the first loop of WorkServer::update: every request in the channel is
\* acknowledged
RECURSIVE ack_requests(_, _)
ack_requests(requests, channel) ==
    IF channel = <<>> THEN requests
    ELSE ack_requests(ack_request(requests, Head(channel)), Tail(channel))

\* the second loop of WorkServer::update
RECURSIVE purge(_, _)
purge(requests, finished) ==
    IF finished = <<>> THEN requests
    ELSE purge(vec_remove(requests, Head(finished)), Tail(finished))

\* WorkServer::update
WorkServer_update(requests, channel, finished) ==
    purge(ack_requests(requests, channel), finished)

\* the jobs are counted by hash: the calls of work_generate and the results
\* wait_on returned
count_job(counts, hash, field) == [counts EXCEPT ![hash][field] = @ + 1]

ServerFrame == UNCHANGED <<config, wallet_db, frontiers_db, receivable>>

\* WorkClient::request_work
ClientRequestWork(hash) ==
    /\ cmd.op = "work_server"
    /\ ~cmd.dropped
    /\ cmd.waiting = "none"
    /\ ops < MaxJobs
    /\ ServerFrame
    /\ UNCHANGED published
    /\ cmd' = [cmd EXCEPT !.client.requests = ack_request(@, hash)]
    /\ inflight' = [inflight EXCEPT !.requests = Append(@, hash)]
    /\ ops' = ops + 1
    /\ last' = [op |-> "request_work", err |-> "none", hash |-> hash]

\* WorkServer::start, a turn of the loop that pops a request: work_generate
\* is called
ServerStartsJob ==
    /\ cmd.op = "work_server"
    /\ cmd.stopped = "none"
    /\ cmd.generating = "none" /\ cmd.finished = "none"
    /\ cmd.server.requests # <<>>
    /\ ServerFrame
    /\ UNCHANGED <<inflight, last, ops>>
    /\ LET request == cmd.server.requests[Len(cmd.server.requests)]
       IN  /\ cmd' = [cmd EXCEPT !.server.requests = SubSeq(@, 1, Len(@) - 1),
                                 !.generating = request]
           /\ published' = count_job(published, request, "generated")

\* Sender::send on the channel of results fails once the receiver is dropped
send_never_fails(dropped) == FALSE

send_fails(dropped) == dropped

\* WorkServer::start after work_generate: the result is sent; the loop ends
\* with SendResult when the client has gone
ServerFinishesJob ==
    /\ cmd.op = "work_server"
    /\ cmd.stopped = "none"
    /\ cmd.generating # "none"
    /\ ServerFrame
    /\ UNCHANGED <<last, published, ops>>
    /\ IF send_fails(cmd.dropped)
       THEN /\ cmd' = [cmd EXCEPT !.generating = "none", !.stopped = "SendResult"]
            /\ UNCHANGED inflight
       ELSE /\ cmd' = [cmd EXCEPT !.generating = "none", !.finished = cmd.generating]
            /\ inflight' = [inflight EXCEPT !.results = Append(@, cmd.generating)]

\* WorkServer::update as WorkServer::start calls it: the requests in the
\* channel are received; with the sender dropped the receiver ends with
\* Disconnected before anything is purged
server_update(finished) ==
    /\ inflight' = [inflight EXCEPT !.requests = <<>>]
    /\ cmd' = IF cmd.dropped
              THEN [cmd EXCEPT !.server.requests = ack_requests(@, inflight.requests),
                               !.finished = "none", !.stopped = "ReceiveRequest"]
              ELSE [cmd EXCEPT !.server.requests =
                                   WorkServer_update(@, inflight.requests, finished),
                               !.finished = "none"]

\* WorkServer::start after the result is sent: the requests received meanwhile
\* are acknowledged and those for the finished hash purged. The client runs on
\* another thread, so its calls can fall between the send and this step.
ServerUpdate ==
    /\ cmd.op = "work_server"
    /\ cmd.stopped = "none"
    /\ cmd.finished # "none"
    /\ ServerFrame
    /\ UNCHANGED <<last, published, ops>>
    /\ server_update(<<cmd.finished>>)

\* WorkServer::start, a turn of the loop with no request to pop
ServerIdleUpdate ==
    /\ cmd.op = "work_server"
    /\ cmd.stopped = "none"
    /\ cmd.generating = "none" /\ cmd.finished = "none"
    /\ cmd.server.requests = <<>>
    /\ inflight.requests # <<>> \/ cmd.dropped
    /\ ServerFrame
    /\ UNCHANGED <<last, published, ops>>
    /\ server_update(<<>>)

\* WorkClient::wait_on up to its loop
ClientWaitOn(hash) ==
    /\ cmd.op = "work_server"
    /\ ~cmd.dropped
    /\ cmd.waiting = "none"
    /\ ServerFrame
    /\ UNCHANGED <<inflight, published, ops>>
    /\ IF hash \in Range(cmd.client.requests)
       THEN /\ cmd' = [cmd EXCEPT !.client.requests = vec_remove(@, hash),
                                  !.waiting = hash]
            /\ last' = NoResult
       ELSE /\ cmd' = Panicked
            /\ last' = [op |-> "wait_on", err |-> "panic", hash |-> hash]

\* a turn of the loop of WorkClient::wait_on
ClientWaitTurn ==
    /\ cmd.op = "work_server"
    /\ ~cmd.dropped
    /\ cmd.waiting # "none"
    /\ ServerFrame
    /\ UNCHANGED ops
    /\ inflight' = [inflight EXCEPT !.results = <<>>]
    /\ LET client == WorkClient_update(cmd.client, inflight.results)
       IN  IF cmd.waiting \in Range(client.results)
           THEN /\ cmd' = [cmd EXCEPT !.client =
                                          [requests |-> vec_remove(client.requests, cmd.waiting),
                                           results |-> vec_remove(client.results, cmd.waiting)],
                                      !.waiting = "none"]
                /\ published' = count_job(published, cmd.waiting, "returned")
                /\ last' = [op |-> "wait_on", err |-> "none", hash |-> cmd.waiting]
           ELSE /\ inflight.results # <<>>
                /\ cmd' = [cmd EXCEPT !.client = client]
                /\ UNCHANGED <<published, last>>

\* the WorkClient is dropped, and with it its ends of the two channels: the
\* results not yet received are lost
ClientDropped ==
    /\ cmd.op = "work_server"
    /\ ~cmd.dropped
    /\ ServerFrame
    /\ UNCHANGED <<published, last, ops>>
    /\ cmd' = [cmd EXCEPT !.dropped = TRUE]
    /\ inflight' = [inflight EXCEPT !.results = <<>>]

\* create_work_server: empty channels, no request, no result
ServerInit ==
    /\ config = [ENABLE_WORK_CACHE |-> TRUE]
    /\ wallet_db = [account_db |-> <<>>, camo_account_db |-> <<>>,
                    derived_account_db |-> <<>>]
    /\ frontiers_db = [frontiers |-> <<>>, frontiers_balance |-> 0]
    /\ receivable = <<>>
    /\ cmd = [op |-> "work_server",
              client |-> [requests |-> <<>>, results |-> <<>>],
              server |-> [requests |-> <<>>],
              generating |-> "none", finished |-> "none", waiting |-> "none",
              dropped |-> FALSE, stopped |-> "none"]
    /\ last = NoResult
    /\ inflight = [requests |-> <<>>, results |-> <<>>]
    /\ published = [h \in ServerHashes |-> [generated |-> 0, returned |-> 0]]
    /\ ops = 0

ServerNext ==
    \/ \E h \in ServerHashes : ClientRequestWork(h)
    \/ ServerStartsJob
    \/ ServerFinishesJob
    \/ ServerUpdate
    \/ ServerIdleUpdate
    \/ \E h \in ServerHashes : ClientWaitOn(h)
    \/ ClientWaitTurn
    \/ ClientDropped

ServerSpec == ServerInit /\ [][ServerNext]_vars

\* the server is a task of the runtime and the client's loop yields on every
\* turn, so each of them goes on running; work_generate returns
ServerFairSpec ==
    /\ ServerSpec
    /\ WF_vars(ServerStartsJob) /\ WF_vars(ServerFinishesJob)
    /\ WF_vars(ServerUpdate) /\ WF_vars(ServerIdleUpdate)
    /\ WF_vars(ClientWaitTurn)

-----------------------------------------------------------------------------
(* Rescan of a notification account's history, in pages *)

\* Option::Some
Some(value) == [some |-> value]

\* what the link of a block of the notification account leads to: no
\* notification, a notification whose derived account holds nothing, a
\* notification whose derived account has a balance or a receivable
Links == {"other", "worthless", "funded"}

\* the chain of the notification account at the node: the block at height k
\* has hash k and previous k - 1; the hash 0 is the zero hash before the
\* first block
HistoryBlock(chain, k) == [hash |-> k, previous |-> k - 1, link |-> chain[k]]

\* the node's account_history: count blocks from head (the frontier when
\* there is none) towards the first block, newest first, after skipping
\* offset blocks
account_history(chain, count, head, offset) ==
    LET start == IF head = None THEN Len(chain) ELSE head.some
        skip == IF offset = None THEN 0 ELSE offset.some
        first == IF start >= skip THEN start - skip ELSE 0
        n == IF count <= first THEN count ELSE first
    IN  [i \in 1..n |-> HistoryBlock(chain, first - i + 1)]

\* the node knows the head it is asked to start from
known_head(chain, head) == head = None \/ head.some \in 1..Len(chain)

\* get_camo_destinations_from_blocks after download_notification_blocks: one
\* derived account for each link that is a notification
destinations_info(history) ==
    LET found == SelectSeq(history, LAMBDA block : block.link # "other")
    IN  [i \in 1..Len(found) |-> [account |-> <<"derived", found[i].hash>>,
                                  worth |-> found[i].link = "funded"]]

\* download_historical_notifications
download_historical_notifications(chain, batch, head, offset) ==
    LET history == account_history(chain, batch, head,
                       IF offset = None THEN None ELSE Some(offset.some * batch))
    IN  [history |-> history,
         info |-> destinations_info(history),
         new_head |-> IF history = <<>> THEN None
                      ELSE Some(history[Len(history)].previous)]

\* a page that never moves the head
new_head_same(downloaded, head) == head

\* the head of the next page
new_head_of(downloaded, head) == downloaded.new_head

\* filter_worthless
filter_worthless(info) == SelectSeq(info, LAMBDA i : i.worth)

\* the blocks visited are counted by height
visit(visits, history) ==
    [k \in DOMAIN visits |->
        visits[k] + Cardinality({i \in DOMAIN history : history[i].hash = k})]

RescanFrame == UNCHANGED <<config, wallet_db, frontiers_db, receivable, inflight, ops>>

\* rescan_notifications_partial; paging tells whether the head is the
\* new_head of the call before (the first call of a scan has the head the
\* user gave, or the frontier)
rescan_notifications_partial(head, offset, filter, paging) ==
    LET batch == config.RPC_ACCOUNT_HISTORY_BATCH_SIZE
        d == download_historical_notifications(inflight, batch, head, offset)
    IN  /\ RescanFrame
        /\ IF known_head(inflight, head)
           THEN /\ last' = [op |-> "rescan", err |-> "none", head |-> head,
                            offset |-> offset, scanned |-> d.history,
                            derived_info |-> IF filter THEN filter_worthless(d.info)
                                             ELSE d.info,
                            new_head |-> new_head_of(d, head)]
                /\ published' = visit(IF paging THEN published
                                      ELSE [k \in DOMAIN published |-> 0], d.history)
                /\ cmd' = [op |-> "rescan", paging |-> TRUE,
                           from_frontier |-> IF paging THEN cmd.from_frontier
                                             ELSE offset = None /\
                                                  (head = None \/ head = Some(Len(inflight)))]
           ELSE /\ last' = [op |-> "rescan", err |-> "Other", head |-> head,
                            offset |-> offset]
                /\ published' = [k \in DOMAIN published |-> 0]
                /\ cmd' = [op |-> "rescan", paging |-> FALSE, from_frontier |-> FALSE]

\* the first call of a scan
RescanStart(head, offset, filter) ==
    /\ cmd.op = "rescan"
    /\ rescan_notifications_partial(head, offset, filter, FALSE)

\* the next call of a scan: the head is the new_head returned by the call
\* before, the offset is None
RescanContinue(filter) ==
    /\ cmd.op = "rescan"
    /\ cmd.paging
    /\ last.err = "none"
    /\ last.new_head # None
    /\ rescan_notifications_partial(last.new_head, None, filter, TRUE)

Chains == UNION {[1..n -> Links] : n \in 0..MaxChain}

Heads == {None} \cup {Some(k) : k \in 0..MaxChain}

Offsets == {None, Some(1)}

\* the notification account's chain at the node, and a batch size
RescanInit ==
    /\ config \in [RPC_ACCOUNT_HISTORY_BATCH_SIZE : 1..MaxHistoryBatch]
    /\ wallet_db = [account_db |-> <<>>, camo_account_db |-> <<>>,
                    derived_account_db |-> <<>>]
    /\ frontiers_db = [frontiers |-> <<>>, frontiers_balance |-> 0]
    /\ receivable = <<>>
    /\ cmd = [op |-> "rescan", paging |-> FALSE, from_frontier |-> FALSE]
    /\ last = NoResult
    /\ inflight \in Chains
    /\ published = [k \in 1..MaxChain |-> 0]
    /\ ops = 0

RescanNext ==
    \/ \E head \in Heads, offset \in Offsets, filter \in BOOLEAN :
            RescanStart(head, offset, filter)
    \/ \E filter \in BOOLEAN : RescanContinue(filter)

RescanSpec == RescanInit /\ [][RescanNext]_vars

-----------------------------------------------------------------------------
(* The command line wallet: the prompt, the work cache loop, the wallet file *)

\* SAVE_TIMER, in readings of the clock
SAVE_TIMER == 2

\* the results of Command::execute
CommandResults == {"true", "false", "err"}

\* a loop that writes on every turn
save_due_always(should_save, elapsed) == TRUE

\* the condition of work_cache_loop for writing the wallet file
save_due(should_save, elapsed) == should_save /\ elapsed >= SAVE_TIMER

\* save_to_disk: the time and the writer of the write are kept, and whether
\* update_work_cache reported a change since
save_to_disk(file, now, by) ==
    [last_write |-> [time |-> now, by |-> by],
     loop_write |-> IF by = "loop" THEN [time |-> now, by |-> by] ELSE file.loop_write,
     reported |-> FALSE,
     flip |-> ~file.flip]

CliFrame == UNCHANGED <<config, wallet_db, frontiers_db, receivable, inflight>>

\* time passes
CliTick ==
    /\ cmd.op = "cli"
    /\ cmd.pc # "exited"
    /\ ops < MaxClock
    /\ CliFrame
    /\ UNCHANGED <<cmd, last, published>>
    /\ ops' = ops + 1

\* _start_cli: the prompt is printed and work_cache_loop spawned; the client
\* moves into the loop
StartWorkCacheLoop ==
    /\ cmd.op = "cli"
    /\ cmd.pc = "prompt"
    /\ CliFrame
    /\ UNCHANGED <<published, ops>>
    /\ cmd' = [cmd EXCEPT !.pc = "read_line", !.loop = "running", !.stop = FALSE,
                          !.last_save = ops, !.should_save = FALSE]
    /\ last' = [op |-> "prompt", err |-> "none"]

\* a turn of work_cache_loop with no stop signal; changed is the result of
\* update_work_cache
WorkCacheTurn(changed) ==
    LET should_save == cmd.should_save \/ changed
        due == save_due(should_save, ops - cmd.last_save)
    IN  /\ cmd.op = "cli"
        /\ cmd.loop = "running"
        /\ ~cmd.stop
        /\ CliFrame
        /\ UNCHANGED ops
        /\ cmd' = [cmd EXCEPT !.last_save = IF due THEN ops ELSE @,
                              !.should_save = IF due THEN FALSE ELSE should_save]
        /\ published' = IF due THEN save_to_disk(published, ops, "loop")
                        ELSE [published EXCEPT !.reported = @ \/ changed]
        /\ last' = [op |-> "work_cache_loop", err |-> "none", changed |-> changed,
                    saved |-> due, previous |-> published.loop_write]

\* _start_cli: a line is read and the stop signal sent
ReadLine ==
    /\ cmd.op = "cli"
    /\ cmd.pc = "read_line"
    /\ CliFrame
    /\ UNCHANGED <<published, ops>>
    /\ cmd' = [cmd EXCEPT !.pc = "await", !.stop = TRUE]
    /\ last' = [op |-> "read_line", err |-> "none"]

\* work_cache_loop receives the stop signal, breaks and returns the client
LoopStops ==
    /\ cmd.op = "cli"
    /\ cmd.loop = "running"
    /\ cmd.stop
    /\ CliFrame
    /\ UNCHANGED <<published, ops, last>>
    /\ cmd' = [cmd EXCEPT !.loop = "returned", !.stop = FALSE]

\* a command that starts whether or not the loop has returned
loop_ignored(loop) == TRUE

\* the await of the task of the loop ends when the loop has returned
loop_awaited(loop) == loop = "returned"

\* _start_cli: the loop is awaited, the client taken back and the command
\* starts
BeginCommand ==
    /\ cmd.op = "cli"
    /\ cmd.pc = "await"
    /\ loop_awaited(cmd.loop)
    /\ CliFrame
    /\ UNCHANGED <<published, ops>>
    /\ cmd' = [cmd EXCEPT !.pc = "execute",
                          !.loop = IF @ = "returned" THEN "none" ELSE @]
    /\ last' = [op |-> "await", err |-> "none"]

\* _start_cli: the command is executed and the wallet saved, then the result
\* of the command decides whether the wallet goes on
ExecuteCommand(result) ==
    /\ cmd.op = "cli"
    /\ cmd.pc = "execute"
    /\ CliFrame
    /\ UNCHANGED ops
    /\ published' = save_to_disk(published, ops, "command")
    /\ cmd' = [cmd EXCEPT !.pc = IF result = "false" THEN "exited" ELSE "prompt"]
    /\ last' = [op |-> "command", err |-> IF result = "err" THEN "Other" ELSE "none",
                result |-> result]

\* CliClient::start: the wallet is at its first prompt, nothing written yet
CliInit ==
    /\ config = [ENABLE_WORK_CACHE |-> TRUE]
    /\ wallet_db = [account_db |-> <<>>, camo_account_db |-> <<>>,
                    derived_account_db |-> <<>>]
    /\ frontiers_db = [frontiers |-> <<>>, frontiers_balance |-> 0]
    /\ receivable = <<>>
    /\ cmd = [op |-> "cli", pc |-> "prompt", loop |-> "none", stop |-> FALSE,
              last_save |-> 0, should_save |-> FALSE]
    /\ last = NoResult
    /\ inflight = <<>>
    /\ published = [last_write |-> None, loop_write |-> None, reported |-> FALSE,
                    flip |-> FALSE]
    /\ ops = 0

CliNext ==
    \/ CliTick
    \/ StartWorkCacheLoop
    \/ \E changed \in BOOLEAN : WorkCacheTurn(changed)
    \/ ReadLine
    \/ LoopStops
    \/ BeginCommand
    \/ \E result \in CommandResults : ExecuteCommand(result)

CliSpec == CliInit /\ [][CliNext]_vars

\* the runtime runs the task of the loop, and _start_cli goes on once its
\* await is over; the user may never enter a line
CliFairSpec == CliSpec /\ WF_vars(LoopStops) /\ WF_vars(BeginCommand)

-----------------------------------------------------------------------------
(* The wallet file: WalletData, bincode, AES-GCM under a hashed password *)

\* the passwords
Passwords == {"pw1", "pw2"}

\* the values of rand::random for the salt and of generate_nonce
Salts == {0, 1}
Nonces == {0, 1}

\* the wallets that are saved: the fields of WalletData over small types
WalletDatas ==
    [seed : {0, 1},
     wallet_db : {<<>>, <<0>>, <<1, 0>>},
     frontiers_db : {<<>>, <<[account |-> 1, balance |-> 0]>>,
                     <<[account |-> 0, balance |-> 3]>>},
     cached_receivable : UNION {[hs -> {1, 2}] : hs \in SUBSET {0, 3}},
     camo_history : {<<>>, <<2>>}]

\* the orders in which a HashMap may be iterated
MapOrders(map) ==
    {order \in [1..Cardinality(DOMAIN map) -> DOMAIN map] :
        \A i, j \in DOMAIN order : i # j => order[i] # order[j]}

\* sequences are joined
RECURSIVE concat(_)
concat(seqs) == IF seqs = <<>> THEN <<>> ELSE Head(seqs) \o concat(Tail(seqs))

\* bincode of a Vec: the length, then the items
serialize_vec(items) == <<Len(items)>> \o concat(items)

\* bincode::serialize of WalletData: the fields in the order of the struct,
\* the map in the order of its iteration
bincode_serialize(d, order) ==
    <<d.seed>>
        \o serialize_vec([i \in DOMAIN d.wallet_db |-> <<d.wallet_db[i]>>])
        \o serialize_vec([i \in DOMAIN d.frontiers_db |->
                             <<d.frontiers_db[i].account, d.frontiers_db[i].balance>>])
        \o serialize_vec([i \in DOMAIN order |->
                             <<order[i], d.cached_receivable[order[i]]>>])
        \o serialize_vec([i \in DOMAIN d.camo_history |-> <<d.camo_history[i]>>])

\* a Vec is read at pos: its items of the given width, and the place after it
read_vec(bytes, pos, width) ==
    IF pos \notin DOMAIN bytes THEN [ok |-> FALSE]
    ELSE IF pos + bytes[pos] * width > Len(bytes) THEN [ok |-> FALSE]
    ELSE [ok |-> TRUE,
          items |-> [i \in 1..bytes[pos] |->
                        SubSeq(bytes, pos + 1 + (i - 1) * width, pos + i * width)],
          next |-> pos + 1 + bytes[pos] * width]

\* bincode::deserialize to WalletData
bincode_deserialize(bytes) ==
    LET accounts == read_vec(bytes, 2, 1)
        frontiers == IF accounts.ok THEN read_vec(bytes, accounts.next, 2) ELSE [ok |-> FALSE]
        cached == IF frontiers.ok THEN read_vec(bytes, frontiers.next, 2) ELSE [ok |-> FALSE]
        history == IF cached.ok THEN read_vec(bytes, cached.next, 1) ELSE [ok |-> FALSE]
    IN  IF bytes = <<>> \/ ~history.ok THEN [err |-> "Bincode"]
        ELSE [err |-> "none",
              data |-> [seed |-> bytes[1],
                        wallet_db |-> [i \in DOMAIN accounts.items |-> accounts.items[i][1]],
                        frontiers_db |-> [i \in DOMAIN frontiers.items |->
                                             [account |-> frontiers.items[i][1],
                                              balance |-> frontiers.items[i][2]]],
                        cached_receivable |->
                            [h \in {cached.items[i][1] : i \in DOMAIN cached.items} |->
                                LET i == CHOOSE i \in DOMAIN cached.items :
                                             /\ cached.items[i][1] = h
                                             /\ \A j \in DOMAIN cached.items :
                                                    cached.items[j][1] = h => j <= i
                                IN  cached.items[i][2]],
                        camo_history |-> [i \in DOMAIN history.items |-> history.items[i][1]]]]

\* hex::encode and hex::decode: a byte is two digits
hex_encode(bytes) ==
    [i \in 1..(2 * Len(bytes)) |->
        IF i % 2 = 1 THEN bytes[(i + 1) \div 2] \div 4 ELSE bytes[i \div 2] % 4]

hex_decode(digits) ==
    [i \in 1..(Len(digits) \div 2) |-> digits[2 * i - 1] * 4 + digits[2 * i]]

\* key_hash: Argon2 of the password under the salt, taken as free of
\* collisions
key_hash(key, salt) == [password |-> key, salt |-> salt]

\* the key stream of the cipher for a key and a nonce
key_stream(key, nonce, i) ==
    ((IF key.password = "pw1" THEN 5 ELSE 11) + 3 * key.salt + 7 * nonce + i) % 16

\* Aes256Gcm::encrypt: the bytes under the key stream, and the tag of the
\* key, the nonce and the bytes
aes_encrypt(key, nonce, data) ==
    [bytes |-> [i \in DOMAIN data |-> (data[i] + key_stream(key, nonce, i)) % 16],
     tag |-> [key |-> key, nonce |-> nonce]]

\* a cipher that accepts every tag
tag_matches_any(key, nonce, encrypted) == TRUE

\* the tag of the encrypted bytes is the one of this key and nonce
tag_matches(key, nonce, encrypted) == encrypted.tag = [key |-> key, nonce |-> nonce]

\* Aes256Gcm::decrypt
aes_decrypt(key, nonce, encrypted) ==
    IF tag_matches(key, nonce, encrypted)
    THEN [err |-> "none",
          bytes |-> [i \in DOMAIN encrypted.bytes |->
                        (encrypted.bytes[i] + 16 - key_stream(key, nonce, i)) % 16]]
    ELSE [err |-> "InvalidPassword"]

\* WalletData::encrypt
WalletData_encrypt(d, order, id, key, salt, nonce) ==
    LET encrypted == aes_encrypt(key_hash(key, salt), nonce, bincode_serialize(d, order))
    IN  [name |-> id,
         salt |-> hex_encode(<<salt>>),
         nonce |-> hex_encode(<<nonce>>),
         data |-> [bytes |-> hex_encode(encrypted.bytes), tag |-> encrypted.tag]]

\* EncryptedWallet::decrypt
EncryptedWallet_decrypt(wallet, key) ==
    LET salt == hex_decode(wallet.salt)[1]
        nonce == hex_decode(wallet.nonce)[1]
        plaintext == aes_decrypt(key_hash(key, salt), nonce,
                                 [bytes |-> hex_decode(wallet.data.bytes),
                                  tag |-> wallet.data.tag])
    IN  IF plaintext.err # "none" THEN [err |-> plaintext.err]
        ELSE bincode_deserialize(plaintext.bytes)

StorageFrame == UNCHANGED <<config, wallet_db, frontiers_db, receivable, ops>>

\* the wallet is encrypted under its password and written
SaveWallet(order, salt, nonce) ==
    /\ cmd.op = "storage"
    /\ inflight = None
    /\ StorageFrame
    /\ UNCHANGED <<cmd, published>>
    /\ inflight' = WalletData_encrypt(cmd.data, order, "wallet", cmd.key, salt, nonce)
    /\ last' = [op |-> "encrypt", err |-> "none"]

\* the wallet file is decrypted with a password
LoadWallet(key) ==
    /\ cmd.op = "storage"
    /\ inflight # None
    /\ StorageFrame
    /\ UNCHANGED <<cmd, inflight>>
    /\ LET r == EncryptedWallet_decrypt(inflight, key)
       IN  /\ last' = [op |-> "decrypt", err |-> r.err, key |-> key]
           /\ published' = IF r.err = "none" THEN r.data ELSE None

\* a wallet in memory and its password; no file yet
StorageInit ==
    /\ config = [ENABLE_WORK_CACHE |-> TRUE]
    /\ wallet_db = [account_db |-> <<>>, camo_account_db |-> <<>>,
                    derived_account_db |-> <<>>]
    /\ frontiers_db = [frontiers |-> <<>>, frontiers_balance |-> 0]
    /\ receivable = <<>>
    /\ cmd \in [op : {"storage"}, data : WalletDatas, key : Passwords]
    /\ last = NoResult
    /\ inflight = None
    /\ published = None
    /\ ops = 0

StorageNext ==
    \/ \E salt \in Salts, nonce \in Nonces :
           \E order \in MapOrders(cmd.data.cached_receivable) : SaveWallet(order, salt, nonce)
    \/ \E key \in Passwords : LoadWallet(key)

StorageSpec == StorageInit /\ [][StorageNext]_vars

-----------------------------------------------------------------------------
(* Camo keys: the ECDH of sender and receiver and the derived account *)

\* The curve is stood for by the subgroup of order 11 of the integers modulo
\* 23, generated by 2: a point is a power of 2, a scalar a number modulo 11.
RECURSIVE point_mul(_, _)
point_mul(point, scalar) ==
    IF scalar = 0 THEN 1 ELSE (point * point_mul(point, scalar - 1)) % 23

\* the base point times a scalar
base_mul(scalar) == point_mul(2, scalar % 11)

\* the sum of two points
point_add(a, b) == (a * b) % 23

\* the hash of a point or of a pair to a scalar
hash_to_scalar(a, b) == (3 * a + 7 * b + 1) % 11

\* Key::from_seed
Key_from_seed(seed, index) == (4 * seed + 6 * index + 2) % 11

\* Key::to_account
Key_to_account(key) == base_mul(key)

\* CamoKeys::from_seed: the private spend and view keys
CamoKeys_from_seed(seed, index) ==
    [private_spend |-> Key_from_seed(seed, index),
     private_view |-> (5 * seed + 3 * index + 4) % 11]

\* CamoKeys::to_camo_account
to_camo_account(keys) ==
    [point_spend |-> base_mul(keys.private_spend),
     point_view |-> base_mul(keys.private_view)]

\* CamoAccount::signer_account, the notification account
camo_signer_account(account) == account.point_spend

\* CamoAccount::sender_ecdh: the sender's key and frontier give a scalar; the
\* notification carries its point, the secret is the hash of the recipient's
\* view point times it
CamoAccount_sender_ecdh(recipient, sender_key, frontier) ==
    LET r == hash_to_scalar(sender_key, frontier)
    IN  [secret |-> hash_to_scalar(point_mul(recipient.point_view, r), 0),
         notification |-> [recipient |-> camo_signer_account(recipient),
                           representative_payload |-> base_mul(r)]]

\* CamoKeys::receiver_ecdh
CamoKeys_receiver_ecdh(keys, notification) ==
    hash_to_scalar(point_mul(notification.representative_payload, keys.private_view), 0)

\* CamoAccount::derive_account
CamoAccount_derive_account(recipient, secret) ==
    point_add(recipient.point_spend, base_mul(hash_to_scalar(secret, 1)))

\* CamoKeys::derive_key
CamoKeys_derive_key(keys, secret) ==
    (keys.private_spend + hash_to_scalar(secret, 1)) % 11

\* WalletSeed::get_camo_key
get_camo_key(seed, index) ==
    LET keys == CamoKeys_from_seed(seed, index)
    IN  [keys |-> keys, info |-> [index |-> index, account |-> to_camo_account(keys)]]

\* a receiver that takes the keys of its first camo account
master_key_first(seed, master) == get_camo_key(seed, 0).keys

\* the keys of the master of a derived account
master_key(seed, master) == get_camo_key(seed, master.index).keys

\* WalletSeed::derive_key_from_secret
derive_key_from_secret(seed, master, secret) ==
    LET key == CamoKeys_derive_key(master_key(seed, master), secret)
    IN  [key |-> key,
         info |-> [secret |-> secret, master_index |-> master.index, index |-> 0,
                   account |-> Key_to_account(key)]]

\* WalletSeed::derive_key
WalletSeed_derive_key(seed, master, notification) ==
    derive_key_from_secret(seed, master,
        CamoKeys_receiver_ecdh(master_key(seed, master), notification))

\* the camo accounts of the wallet
CamoKeyIndices == {0, 1}

\* CamoAccountDB::get_info_from_notification_account
get_info_from_notification_account(seed, recipient) ==
    LET infos == {get_camo_key(seed, i).info : i \in CamoKeyIndices}
        found == {info \in infos : camo_signer_account(info.account) = recipient}
    IN  IF found = {} THEN None
        ELSE CHOOSE info \in found : \A other \in found : info.index <= other.index

EcdhFrame == UNCHANGED <<config, wallet_db, frontiers_db, receivable, cmd, ops>>

\* send_camo up to its blocks: sender_ecdh with the frontier of the sender,
\* the derived account of the recipient, the notification block carrying the
\* payload as its representative
SenderDerives ==
    /\ cmd.op = "ecdh"
    /\ inflight = None
    /\ EcdhFrame
    /\ LET recipient == get_camo_key(cmd.seed, cmd.index).info.account
           e == CamoAccount_sender_ecdh(recipient, cmd.sender_key, cmd.frontier)
       IN  /\ published' = [secret |-> e.secret,
                            derived |-> CamoAccount_derive_account(recipient, e.secret)]
           /\ inflight' = [link |-> e.notification.recipient,
                           representative |-> e.notification.representative_payload]
           /\ last' = [op |-> "sender_ecdh", err |-> "none"]

\* get_camo_destinations_from_blocks for the notification block
ReceiverDerives ==
    /\ cmd.op = "ecdh"
    /\ inflight # None
    /\ last.op = "sender_ecdh"
    /\ EcdhFrame
    /\ UNCHANGED <<inflight, published>>
    /\ LET master == get_info_from_notification_account(cmd.seed, inflight.link)
       IN  IF master = None
           THEN last' = [op |-> "derive_key", err |-> "NotFound"]
           ELSE last' = [op |-> "derive_key", err |-> "none",
                         info |-> WalletSeed_derive_key(cmd.seed, master,
                                      [recipient |-> inflight.link,
                                       representative_payload |-> inflight.representative]).info]

\* a seed, a camo account of the wallet, and the key and frontier of a sender
EcdhInit ==
    /\ config = [ENABLE_WORK_CACHE |-> TRUE]
    /\ wallet_db = [account_db |-> <<>>, camo_account_db |-> <<>>,
                    derived_account_db |-> <<>>]
    /\ frontiers_db = [frontiers |-> <<>>, frontiers_balance |-> 0]
    /\ receivable = <<>>
    /\ cmd \in [op : {"ecdh"}, seed : 0..3, index : CamoKeyIndices,
                sender_key : 0..3, frontier : 0..3]
    /\ last = NoResult
    /\ inflight = None
    /\ published = None
    /\ ops = 0

EcdhNext == SenderDerives \/ ReceiverDerives

EcdhSpec == EcdhInit /\ [][EcdhNext]_vars

-----------------------------------------------------------------------------
(* Claims on the work manager *)

\* C25: requesting work for a hash any number of times while a job for it is
\* pending, or finished and not yet collected, starts one job: work_generate
\* is called for a hash at most once more than its results were collected.
C25_Original ==
    \A h \in ServerHashes : published[h].generated <= published[h].returned + 1

\* C26: waiting on a work hash that has no job (none requested, or its result
\* already collected) does not panic: it returns a "not requested" error.
C26_Original ==
    /\ [](cmd # Panicked)
    /\ [][\A h \in Range(JobHashes) :
            (WaitOn(h) /\ h \notin DOMAIN inflight) => last'.err = "NotRequested"]_vars

\* the jobs whose result was handed to a caller
Delivered == {j \in DOMAIN published : published[j].wait + published[j].poll > 0}

\* the jobs that have a handle in the map or in the hands of wait_on
Held ==
    {inflight[h].job : h \in DOMAIN inflight}
        \cup (IF cmd.op = "wait_on" THEN {cmd.handle.job} ELSE {})

\* C27: the result of a job is handed to the caller at most once, by wait_on
\* or by one poll of the finished jobs, never by both and never twice; a job
\* whose result was handed over has no handle left, and every job started is
\* either held or delivered.
C27_DeliveredOnce ==
    /\ \A j \in DOMAIN published : published[j].wait + published[j].poll <= 1
    /\ Delivered \cap Held = {}
    /\ Delivered \cup Held = 1..ops

\* one job was collected by wait_on and another by a poll
C27_Witness ==
    /\ \E j \in Delivered : published[j].wait = 1
    /\ \E j \in Delivered : published[j].poll = 1
    /\ last.op = "get_results"
    /\ last.hashes # {}

\* C28: at no time are more than MAX_PREFETCHES jobs running, counting those
\* requested by update_work_cache and those requested while sending.
C28_Original ==
    Cardinality({h \in DOMAIN inflight : ~inflight[h].finished})
        + (IF cmd.op = "wait_on" /\ ~cmd.handle.finished THEN 1 ELSE 0) <= MAX_PREFETCHES

\* the heights of the blocks a call scanned, newest first
scanned_heights == [i \in DOMAIN last.scanned |-> last.scanned[i].hash]

\* the blocks of the chain not yet visited when the last call began
left_before == IF last.head = None THEN Len(inflight) ELSE last.head.some

\* C29: calls of rescan_notifications_partial that start at the frontier of
\* the notification account and pass each new_head on as the next head, with
\* no offset, visit every block of the history once: a call scans the next
\* blocks below the ones scanned so far, the batch size of them or all that
\* are left, and returns the previous of the last one scanned as new_head;
\* when new_head is the zero hash every block has been visited exactly once.
C29_Pagination ==
    (cmd.op = "rescan" /\ cmd.from_frontier /\ last.err = "none" /\ Len(inflight) > 0) =>
        /\ \A k \in DOMAIN published : published[k] <= 1
        /\ Len(last.scanned) <= config.RPC_ACCOUNT_HISTORY_BATCH_SIZE
        /\ Len(last.scanned) =
               (IF left_before <= config.RPC_ACCOUNT_HISTORY_BATCH_SIZE THEN left_before
                ELSE config.RPC_ACCOUNT_HISTORY_BATCH_SIZE)
        /\ \A i \in DOMAIN last.scanned : scanned_heights[i] = left_before - i + 1
        /\ last.new_head = Some(last.scanned[Len(last.scanned)].previous)
        /\ {k \in DOMAIN published : published[k] = 1}
               = (last.new_head.some + 1)..Len(inflight)

\* a chain of five blocks was scanned from the frontier in pages of two, two
\* and one block
C29_Witness ==
    /\ cmd.op = "rescan"
    /\ cmd.from_frontier
    /\ Len(inflight) = 5
    /\ config.RPC_ACCOUNT_HISTORY_BATCH_SIZE = 2
    /\ last.err = "none"
    /\ Len(last.scanned) = 1
    /\ last.new_head = Some(0)
    /\ \A k \in 1..5 : published[k] = 1

\* a step in which the wallet file is written
Written == published'.flip # published.flip

\* a step in which a foreground command ends
CommandEnds == cmd.op = "cli" /\ cmd.pc = "execute" /\ cmd'.pc # "execute"

\* C30: the wallet file is written after each foreground command; a write
\* of the work cache loop comes SAVE_TIMER or more after the write of the
\* loop before it, and only when update_work_cache reported a change since
\* the last write of the file.
C30_Saves ==
    /\ [][CommandEnds => (Written /\ published'.last_write = [time |-> ops', by |-> "command"])]_vars
    /\ [][(Written /\ published'.last_write.by = "loop") =>
            /\ published.reported \/ last'.changed
            /\ published.loop_write # None =>
                   ops' - published.loop_write.time >= SAVE_TIMER]_vars
    /\ [][Written => CommandEnds \/ cmd.loop = "running"]_vars

\* the loop writes the file for the second time, SAVE_TIMER after its write
\* before
C30_Witness ==
    /\ last.op = "work_cache_loop"
    /\ last.saved
    /\ last.previous # None
    /\ last.previous.time + SAVE_TIMER = ops
    /\ cmd.last_save = ops
    /\ published.last_write.by = "loop"

\* a step in which the loop changes the client: its save timer, its flag, the
\* wallet file
LoopMutates ==
    \/ last'.op = "work_cache_loop" /\ last' # last
    \/ published'.last_write # published.last_write /\ published'.last_write.by = "loop"

C32_RoundTrip ==
    (cmd.op = "storage" /\ last.op = "decrypt") =>
        IF last.key = cmd.key
        THEN /\ last.err = "none"
             /\ \A field \in DOMAIN cmd.data : published[field] = cmd.data[field]
             /\ DOMAIN published = DOMAIN cmd.data
        ELSE /\ last.err = "InvalidPassword"
             /\ published = None

\* a wallet with accounts, a frontier, two cached receivables and a camo
\* payment came back from its file
C32_Witness ==
    /\ cmd.op = "storage"
    /\ last.op = "decrypt"
    /\ last.key = cmd.key
    /\ published = cmd.data
    /\ Len(cmd.data.wallet_db) = 2
    /\ cmd.data.frontiers_db # <<>>
    /\ Cardinality(DOMAIN cmd.data.cached_receivable) = 2
    /\ cmd.data.camo_history # <<>>

\* C33: the account the sender derives from its shared secret is the account
\* the receiver derives with derive_key from the notification, and the two
\* shared secrets are the same.
C33_SameDerived ==
    (cmd.op = "ecdh" /\ last.op = "derive_key") =>
        /\ last.err = "none"
        /\ last.info.secret = published.secret
        /\ last.info.account = published.derived
        /\ last.info.master_index = cmd.index

\* the receiver derived the account of a payment to its second camo account
C33_Witness ==
    /\ cmd.op = "ecdh"
    /\ last.op = "derive_key"
    /\ last.err = "none"
    /\ cmd.index = 1
    /\ last.info.account = published.derived
    /\ published.derived # camo_signer_account(get_camo_key(cmd.seed, 1).info.account)

\* C34: for every list of receivables and every pattern of RPC outcomes,
\* receive ends with an error exactly when some receivable is unreceived, so
\* neither its assertion ("broken receive code") nor its expectation ("Failed
\* to catch invalid receivable transaction") panics.
C34_Original == cmd.op # "panicked"



\* the process RPC of the call in progress has succeeded
ProcessSucceeded ==
    /\ cmd.op = "auto_publish" /\ cmd.pc = "prefetch" /\ cmd.err = "none"
    /\ \E n \in DOMAIN cmd.events : cmd.events[n].ev = "process_done"

\* C35: whenever the process RPC of a block has succeeded, auto_publish_unsynced
\* returns without an error, so the new frontier reaches the caller even when
\* the request of work for the next block fails.
C35_Original == [][ProcessSucceeded => last'.err = "none"]_vars


\* C36: while the client and the server stay connected, every wait_on(h) that
\* follows a request_work(h) eventually returns a result for h, whatever the
\* interleaving of the client's requests with the server's receive and purge.
C36_Original ==
    \A h \in ServerHashes :
        (cmd.op = "work_server" /\ cmd.waiting = h) ~>
            /\ cmd.op = "work_server"
            /\ \/ cmd.dropped
               \/ cmd.waiting = "none" /\ last = [op |-> "wait_on", err |-> "none", hash |-> h]


\* the client has been dropped and the server's loop has not returned yet
Abandoned == cmd.op = "work_server" /\ cmd.dropped /\ cmd.stopped = "none"

\* the server's loop has returned a disconnect error
ServerStopped ==
    cmd.op = "work_server" /\ cmd.stopped \in {"SendResult", "ReceiveRequest"}

\* with the client gone, the job whose work_generate returns is the last: its
\* result is sent to nobody and the loop returns
LastJob ==
    (Abandoned /\ cmd.generating # "none" /\ cmd'.generating = "none") =>
        cmd'.stopped = "SendResult"

\* with the client gone, no result enters the channel and none is returned
Discarded ==
    (cmd.op = "work_server" /\ cmd.dropped) =>
        /\ inflight'.results = <<>>
        /\ \A h \in ServerHashes : published'[h].returned = published[h].returned

\* the loop that has returned does nothing further
Returned == ServerStopped => UNCHANGED <<cmd, inflight, published>>

\* C37: once the work client is dropped the server's loop eventually returns a
\* disconnect error; the first job to finish after the drop is the last, and
\* the results of the abandoned jobs reach nobody.
C37_ServerStops ==
    /\ Abandoned ~> ServerStopped
    /\ [][LastJob /\ Discarded /\ Returned]_vars

\* the client went while a job was running, and the loop returned when the
\* result of that job could not be sent
C37_Witness ==
    /\ cmd.op = "work_server" /\ cmd.dropped /\ cmd.stopped = "SendResult"
    /\ \E h \in ServerHashes : published[h].generated > published[h].returned


\* a removal that ends with an error has left the three stores as they were
NothingRemoved ==
    last'.err = "AccountNotFound" => UNCHANGED <<wallet_db, frontiers_db, receivable>>

\* C40: if remove_account(a) or remove_camo_account(s) returns AccountNotFound,
\* the wallet tables, the FrontierDB and the receivable map are the same as
\* before the call.
C40_Original ==
    [][/\ \A a \in NanoAccounts : RemoveNanoAccount(a) => NothingRemoved
       /\ \A i \in CamoIndices : RemoveCamoAccount(camo_account(i)) => NothingRemoved]_vars


\* the accounts that have an entry in the FrontierDB
frontier_accounts(db) == {db.frontiers[i].block.account : i \in 1..Len(db.frontiers)}

\* C38: after any sequence of add-account, refresh, rescan, send, receive and
\* remove operations every account with an entry in the FrontierDB is a normal
\* account, a derived account or a notification account of the WalletDB.
C38_Original == frontier_accounts(frontiers_db) \subseteq Range(all_nano_accounts(wallet_db))


\* the sum of the balances of the accounts of the wallet, each account once
distinct_balance(w, db) ==
    sum_balances(SelectSeq(db.frontiers,
                           LAMBDA f : f.block.account \in Range(all_nano_accounts(w))), 1)

\* C39: wallet_balance() is the sum of the frontier balances of the distinct
\* accounts of the wallet, an account that is normal account i and the
\* notification account of stealth account i counted once; it never exceeds
\* the balance sum of the FrontierDB and its summation never overflows.
C39_Original ==
    last.op = "wallet_balance" =>
        /\ last.result.outcome = "value"
        /\ last.result.value = distinct_balance(wallet_db, frontiers_db)
        /\ last.result.value <= frontiers_db.frontiers_balance

====
